---- MODULE Spec2Model ----
(***************************************************************************)
(* Model of scraper.py (kumamoto-kosodate): the text normalizer, the date  *)
(* and time resolvers, the calendar table reconstructor and the            *)
(* aggregation pipeline scrape().                                          *)
(*                                                                         *)
(* A Python str is a sequence of characters, each character a TLA+ string. *)
(* An ASCII character is itself; any other character is named:             *)
(*   "F0".."F9" full-width digits, "FCOLON" full-width colon (U+FF1A),     *)
(*   "IDSP" ideographic space (U+3000), "WAVE" wave dash (U+301C),         *)
(*   "FTILDE" full-width tilde (U+FF5E), "CHOON" long-vowel mark (U+30FC), *)
(*   "GO" "ZEN" "KOU" the kanji of gozen (a.m.) and gogo (p.m.: GO KOU),   *)
(*   "SEI" as in shougo (noon: SEI GO), "JI" hour, "FUN" minute,           *)
(*   "ka" "ra" "yo" "ri" "ma" "de" the kana of kara, yori, made,          *)
(*   "REI" "WA" the era name, "NEN" year, "GATSU" month (and Monday),      *)
(*   "NICHI" day (and Sunday), "KAYOU" "SUI" "MOKU" "KIN" "DO" the kanji   *)
(*   of Tuesday..Saturday, "FLP" "FRP" full-width parentheses, "KOME" the  *)
(*   reference mark (U+203B), "STAR" the black star (U+2605), "LBR" the    *)
(*   left lenticular bracket (U+3010), and "uXXXX" the character of that   *)
(*   code point.                                                           *)
(* Every regular expression of the source is an operator that matches the *)
(* way re does (leftmost match, greedy quantifiers).                       *)
(***************************************************************************)
EXTENDS Integers, Sequences, FiniteSets, TLC

VARIABLES
    pc,          \* position of the running entry point
    arg,         \* the arguments the entry point was called with
    loc,         \* the local variables of the running function
    res,         \* what the entry point has returned so far
    all_events,  \* scrape / scrape_all_halls: the list being accumulated
    produced     \* what each source or adapter returned (or "raised")

vars == <<pc, arg, loc, res, all_events, produced>>

(***************************************************************************)
(* Characters                                                              *)
(***************************************************************************)
AsciiDigits == <<"0", "1", "2", "3", "4", "5", "6", "7", "8", "9">>
FullDigits  == <<"F0", "F1", "F2", "F3", "F4", "F5", "F6", "F7", "F8", "F9">>

Range(f) == {f[i] : i \in DOMAIN f}

\* \d of a str pattern: any Unicode decimal digit
IsDigit(c) == c \in Range(AsciiDigits) \cup Range(FullDigits)

\* int() of one digit character
DigitVal(c) ==
    IF c \in Range(AsciiDigits)
    THEN (CHOOSE i \in 1..10 : AsciiDigits[i] = c) - 1
    ELSE (CHOOSE i \in 1..10 : FullDigits[i] = c) - 1

\* \s of a str pattern (and str.strip()): Unicode white space, U+3000 included
IsSpace(c) == c \in {" ", "IDSP", "\n", "\t"}

RECURSIVE Cat(_)
Cat(ss) == IF ss = <<>> THEN <<>> ELSE Head(ss) \o Cat(Tail(ss))

\* s[i:] and s[i:j] with 1-based, inclusive indexes
From(s, i) == SubSeq(s, i, Len(s))

StartsWithAt(s, i, p) ==
    /\ i + Len(p) - 1 <= Len(s)
    /\ SubSeq(s, i, i + Len(p) - 1) = p

\* str.find: the first index where p occurs at or after i, 0 when none
FindFrom(s, p, i) ==
    LET hits == {k \in i..Len(s) : StartsWithAt(s, k, p)}
    IN  IF hits = {} THEN 0 ELSE CHOOSE k \in hits : \A h \in hits : k <= h

Contains(s, p) == \E k \in 1..Len(s) : StartsWithAt(s, k, p)

\* the length of the longest run of \d starting at i
RECURSIVE DigitRun(_, _)
DigitRun(s, i) ==
    IF i <= Len(s) /\ IsDigit(s[i]) THEN 1 + DigitRun(s, i + 1) ELSE 0

\* the index after the longest run of \s starting at i
RECURSIVE SkipSpace(_, _)
SkipSpace(s, i) ==
    IF i <= Len(s) /\ IsSpace(s[i]) THEN SkipSpace(s, i + 1) ELSE i

\* int() of the digits s[i .. i+n-1]
RECURSIVE ToInt(_, _, _)
ToInt(s, i, n) ==
    IF n = 0 THEN 0 ELSE ToInt(s, i, n - 1) * 10 + DigitVal(s[i + n - 1])

\* str.strip()
RECURSIVE LStrip(_)
LStrip(s) == IF s # <<>> /\ IsSpace(Head(s)) THEN LStrip(Tail(s)) ELSE s

RECURSIVE RStrip(_)
RStrip(s) ==
    IF s # <<>> /\ IsSpace(s[Len(s)]) THEN RStrip(SubSeq(s, 1, Len(s) - 1)) ELSE s

Strip(s) == LStrip(RStrip(s))

\* str(n) and f"{n:02d}" for n >= 0
RECURSIVE IntStr(_)
IntStr(n) ==
    IF n < 10 THEN <<AsciiDigits[n + 1]>>
    ELSE IntStr(n \div 10) \o <<AsciiDigits[(n % 10) + 1]>>

Pad2(n) == IF n < 10 THEN <<"0">> \o IntStr(n) ELSE IntStr(n)

\* str.zfill(2): the characters are kept, zeros are put in front
ZFill2(s) == IF Len(s) < 2 THEN <<"0">> \o s ELSE s

(***************************************************************************)
(* Text normalizer                                                         *)
(***************************************************************************)
Z2hChar(c) ==
    IF c \in Range(FullDigits) THEN AsciiDigits[DigitVal(c) + 1]
    ELSE IF c = "FCOLON" THEN ":"
    ELSE c

_z2h(s) == [i \in 1..Len(s) |-> Z2hChar(s[i])]

\* the length of a match of \(cid:\d+\) at i, 0 when there is none
CidMatchLen(s, i) ==
    IF StartsWithAt(s, i, <<"(", "c", "i", "d", ":">>)
    THEN LET n == DigitRun(s, i + 5)
         IN  IF n >= 1 /\ i + 5 + n <= Len(s) /\ s[i + 5 + n] = ")"
             THEN n + 6 ELSE 0
    ELSE 0

\* re.sub(r'\(cid:\d+\)', '', s): one left-to-right pass
RECURSIVE RemoveCid(_, _)
RemoveCid(s, i) ==
    IF i > Len(s) THEN <<>>
    ELSE LET n == CidMatchLen(s, i)
         IN  IF n > 0 THEN RemoveCid(s, i + n)
             ELSE <<s[i]>> \o RemoveCid(s, i + 1)

\* re.sub(r'[　\s]+', ' ', s)
RECURSIVE CollapseSpace(_, _)
CollapseSpace(s, i) ==
    IF i > Len(s) THEN <<>>
    ELSE IF IsSpace(s[i]) THEN <<" ">> \o CollapseSpace(s, SkipSpace(s, i))
    ELSE <<s[i]>> \o CollapseSpace(s, i + 1)

_normalize(s) ==
    IF s = <<>> THEN <<>>
    ELSE Strip(CollapseSpace(_z2h(RemoveCid(s, 1)), 1))

(***************************************************************************)
(* Time resolver: normalize_time                                           *)
(***************************************************************************)
Gozen  == <<"GO", "ZEN">>
Gogo   == <<"GO", "KOU">>
Shougo == <<"SEI", "GO">>
Kara   == <<"ka", "ra">>
Yori   == <<"yo", "ri">>
Made   == <<"ma", "de">>
NoMinute == -1

\* \d{1,2} followed by the character c, at i: how many digits matched (2 is
\* tried first), 0 when there is no match
D12Then(s, i, c) ==
    IF i + 2 <= Len(s) /\ IsDigit(s[i]) /\ IsDigit(s[i + 1]) /\ s[i + 2] = c THEN 2
    ELSE IF i + 1 <= Len(s) /\ IsDigit(s[i]) /\ s[i + 1] = c THEN 1
    ELSE 0

\* a wrong to_24h: 12 p.m. is pushed to 24 like every other hour
To24hNoNoonCase(ampm, h, m) ==
    LET h1 == IF ampm = Gogo THEN h + 12 ELSE h
        h2 == IF ampm = Gozen /\ h1 = 12 THEN 0 ELSE h1
    IN  Pad2(h2) \o <<":">> \o Pad2(IF m = NoMinute THEN 0 ELSE m)

\* h and m are the int() of the groups; m = NoMinute when the group is None
to_24h(ampm, h, m) ==
    LET h1 == IF ampm = Gogo /\ h # 12 THEN h + 12 ELSE h
        h2 == IF ampm = Gozen /\ h1 = 12 THEN 0 ELSE h1
    IN  Pad2(h2) \o <<":">> \o Pad2(IF m = NoMinute THEN 0 ELSE m)

\* (\d{1,2})JI(?:(\d{1,2})FUN)? at i
KanjiTimeAt(s, i) ==
    LET n == D12Then(s, i, "JI")
        j == i + n + 1
        k == D12Then(s, j, "FUN")
    IN  [ok |-> n > 0,
         h  |-> IF n > 0 THEN ToInt(s, i, n) ELSE 0,
         m  |-> IF n > 0 /\ k > 0 THEN ToInt(s, j, k) ELSE NoMinute]

\* (\d{1,2}):(\d{2}) at i
ColonTimeAt(s, i) ==
    LET n == D12Then(s, i, ":")
        ok == /\ n > 0
              /\ i + n + 2 <= Len(s)
              /\ IsDigit(s[i + n + 1])
              /\ IsDigit(s[i + n + 2])
    IN  [ok |-> ok,
         h  |-> IF ok THEN ToInt(s, i, n) ELSE 0,
         mm |-> IF ok THEN SubSeq(s, i + n + 1, i + n + 2) ELSE <<>>]

\* the least element of a non-empty set of positions
MinOf(S) == CHOOSE k \in S : \A h \in S : k <= h

parse_one(s0) ==
    IF s0 = <<>> THEN <<>>
    ELSE IF Contains(s0, Shougo) THEN <<"1", "2", ":", "0", "0">>
    ELSE
      LET s == [i \in 1..Len(s0) |-> IF s0[i] = "FCOLON" THEN ":" ELSE s0[i]]
          ampmHits == {i \in 1..Len(s) :
                         /\ \/ StartsWithAt(s, i, Gozen)
                            \/ StartsWithAt(s, i, Gogo)
                         /\ KanjiTimeAt(s, i + 2).ok}
          kanjiHits == {i \in 1..Len(s) : KanjiTimeAt(s, i).ok}
          colonHits == {i \in 1..Len(s) : ColonTimeAt(s, i).ok}
      IN  IF ampmHits # {}
          THEN LET i == MinOf(ampmHits)
                   m == KanjiTimeAt(s, i + 2)
               IN  to_24h(SubSeq(s, i, i + 1), m.h, m.m)
          ELSE IF kanjiHits # {}
          THEN LET m == KanjiTimeAt(s, MinOf(kanjiHits))
               IN  Pad2(m.h) \o <<":">> \o Pad2(IF m.m = NoMinute THEN 0 ELSE m.m)
          ELSE IF colonHits # {}
          THEN LET m == ColonTimeAt(s, MinOf(colonHits))
               IN  Pad2(m.h) \o <<":">> \o m.mm
          ELSE <<>>

\* the separators re.split(r"[WAVE FTILDE]|kara|yori", text, maxsplit=1) knows
SplitSeparators == {<<"WAVE">>, <<"FTILDE">>, Kara, Yori}

\* re.split(..., maxsplit=1): <<text>> or <<before, after>> of the first separator
SplitOnce(text, seps) ==
    LET hits == {i \in 1..Len(text) : \E p \in seps : StartsWithAt(text, i, p)}
    IN  IF hits = {} THEN <<text>>
        ELSE LET i == MinOf(hits)
                 p == CHOOSE q \in seps : StartsWithAt(text, i, q)
             IN  <<SubSeq(text, 1, i - 1), From(text, i + Len(p))>>

\* re.sub(r"made.*", "", s): white space is a single " " by now, so .* runs
\* to the end of the text
CutMade(s) ==
    LET i == FindFrom(s, Made, 1)
    IN  IF i = 0 THEN s ELSE SubSeq(s, 1, i - 1)

normalize_time(text) ==
    IF text = <<>> THEN <<>>
    ELSE
      LET t     == CollapseSpace(Strip(text), 1)
          parts == SplitOnce(t, SplitSeparators)
          start == parse_one(parts[1])
          end   == parse_one(IF Len(parts) > 1 THEN CutMade(parts[2]) ELSE <<>>)
      IN  IF start # <<>> /\ end # <<>>
          THEN start \o <<"WAVE">> \o end
          ELSE start

(***************************************************************************)
(* Date resolver: normalize_date                                           *)
(***************************************************************************)
Reiwa == <<"REI", "WA">>
None  == 0   \* base_year / base_month not given (None is falsy, as 0 is)

\* (\d{lo,hi})\s*c at i: the digit run at i has lo..hi digits and, after any
\* white space, the character c follows.  n: the digits; next: the index
\* after c.  (A shorter group never helps: the next character is a digit.)
DigitsThen(s, i, lo, hi, c) ==
    LET r == DigitRun(s, i)
        j == SkipSpace(s, i + r)
    IN  [ok   |-> r >= lo /\ r <= hi /\ j <= Len(s) /\ s[j] = c,
         n    |-> r,
         next |-> j + 1]

\* (\d{1,2})\s*GATSU\s*(\d{1,2})\s*NICHI at i
MonthDayAt(s, i) ==
    LET g1 == DigitsThen(s, i, 1, 2, "GATSU")
        j  == SkipSpace(s, g1.next)
        g2 == DigitsThen(s, j, 1, 2, "NICHI")
    IN  [ok |-> g1.ok /\ g2.ok,
         mo |-> SubSeq(s, i, i + g1.n - 1),
         dy |-> SubSeq(s, j, j + g2.n - 1)]

\* (\d{lo,hi})\s*NEN\s* and then the month and the day, at i
YearMonthDayAt(s, i, lo, hi) ==
    LET g  == DigitsThen(s, i, lo, hi, "NEN")
        md == MonthDayAt(s, SkipSpace(s, g.next))
    IN  [ok |-> g.ok /\ md.ok,
         y  |-> SubSeq(s, i, i + g.n - 1),
         mo |-> md.mo,
         dy |-> md.dy]

\* REI WA \s*(\d+)\s*NEN\s*(\d{1,2})\s*GATSU\s*(\d{1,2})\s*NICHI at i
ReiwaDateAt(s, i) ==
    LET m == YearMonthDayAt(s, SkipSpace(s, i + 2), 1, Len(s))
    IN  [m EXCEPT !.ok = StartsWithAt(s, i, Reiwa) /\ m.ok]

IsoJoin(y, mo, dy) == y \o <<"-">> \o mo \o <<"-">> \o dy

IntOf(s) == ToInt(s, 1, Len(s))

\* a wrong normalize_date: the era year is ignored and the base year is used
NormalizeDateEraAsBase(text0, base_year, base_month, now_year) ==
    LET text == Strip(text0)
        hits == {i \in 1..Len(text) : MonthDayAt(text, i).ok}
    IN  IF hits = {} THEN <<>>
        ELSE LET m == MonthDayAt(text, MinOf(hits))
             IN  IsoJoin(IntStr(IF base_year # None THEN base_year ELSE now_year),
                         Pad2(IntOf(m.mo)), Pad2(IntOf(m.dy)))

\* now_year is datetime.now().year
normalize_date(text0, base_year, base_month, now_year) ==
    IF text0 = <<>> THEN <<>>
    ELSE
      LET text  == Strip(text0)
          year  == IF base_year # None THEN base_year ELSE now_year
          era   == {i \in 1..Len(text) : ReiwaDateAt(text, i).ok}
          full  == {i \in 1..Len(text) : YearMonthDayAt(text, i, 4, 4).ok}
          short == {i \in 1..Len(text) : MonthDayAt(text, i).ok}
      IN  IF era # {}
          THEN LET m == ReiwaDateAt(text, MinOf(era))
               IN  IsoJoin(IntStr(2018 + IntOf(m.y)), ZFill2(m.mo), ZFill2(m.dy))
          ELSE IF full # {}
          THEN LET m == YearMonthDayAt(text, MinOf(full), 4, 4)
               IN  IsoJoin(m.y, ZFill2(m.mo), ZFill2(m.dy))
          ELSE IF short # {}
          THEN LET m  == MonthDayAt(text, MinOf(short))
                   mo == IntOf(m.mo)
                   dy == IntOf(m.dy)
                   y  == IF base_month # None /\ mo < base_month THEN year + 1 ELSE year
               IN  IsoJoin(IntStr(y), Pad2(mo), Pad2(dy))
          ELSE <<>>

\* datetime.date(y, m, d) raises ValueError unless this holds
IsLeap(y) == (y % 4 = 0 /\ y % 100 # 0) \/ y % 400 = 0

DaysInMonth(y, m) ==
    IF m = 2 THEN (IF IsLeap(y) THEN 29 ELSE 28)
    ELSE IF m \in {4, 6, 9, 11} THEN 30 ELSE 31

ValidDate(y, m, d) ==
    /\ y >= 1 /\ y <= 9999
    /\ m >= 1 /\ m <= 12
    /\ d >= 1 /\ d <= DaysInMonth(y, m)

(***************************************************************************)
(* Hall PDF utilities: TIME_RE, _extract_time, _guess_category,            *)
(* _is_non_event                                                           *)
(***************************************************************************)
RangeMarkChars == {"WAVE", "FTILDE", "CHOON"}

\* TIME_RE at i: (\d{1,2}):(\d{2})[WAVE FTILDE CHOON](\d{1,2}):(\d{2})
TimeReAt(s, i) ==
    LET a  == ColonTimeAt(s, i)
        la == D12Then(s, i, ":") + 3
        b  == ColonTimeAt(s, i + la + 1)
        ok == a.ok /\ i + la <= Len(s) /\ s[i + la] \in RangeMarkChars /\ b.ok
    IN  [ok |-> ok, a |-> a, b |-> b,
         len |-> IF ok THEN la + 1 + D12Then(s, i + la + 1, ":") + 3 ELSE 0]

\* TIME_RE.sub('', s)
RECURSIVE RemoveTimeRe(_, _)
RemoveTimeRe(s, i) ==
    IF i > Len(s) THEN <<>>
    ELSE LET m == TimeReAt(s, i)
         IN  IF m.ok THEN RemoveTimeRe(s, i + m.len)
             ELSE <<s[i]>> \o RemoveTimeRe(s, i + 1)

NoTime == <<"None">>   \* _extract_time returned None

_extract_time(text) ==
    LET s    == _z2h(text)
        hits == {i \in 1..Len(s) : TimeReAt(s, i).ok}
    IN  IF hits = {} THEN NoTime
        ELSE LET m == TimeReAt(s, MinOf(hits))
             IN  Pad2(m.a.h) \o <<":">> \o m.a.mm \o <<"WAVE">>
                 \o Pad2(m.b.h) \o <<":">> \o m.b.mm

\* the rows of _guess_category, in order: <<keywords, category>>
HallCategoryRows ==
    <<
       \* 離乳食|栄養|食育 -> 食育・栄養
       <<{<<"u96E2", "u4E73", "u98DF">>,
          <<"u6804", "u990A">>,
          <<"u98DF", "u80B2">>},
         "shokuiku-eiyou">>,
       \* 発達|言語|相談|聴覚 -> 発達・育児相談
       <<{<<"u767A", "u9054">>,
          <<"u8A00", "u8A9E">>,
          <<"u76F8", "u8AC7">>,
          <<"u8074", "u899A">>},
         "hattatsu-ikuji-soudan">>,
       \* マッサージ|アロマ|ピラティス|エクササイズ|ストレッチ -> 産前・産後
       <<{<<"u30DE", "u30C3", "u30B5", "CHOON", "u30B8">>,
          <<"u30A2", "u30ED", "u30DE">>,
          <<"u30D4", "u30E9", "u30C6", "u30A3", "u30B9">>,
          <<"u30A8", "u30AF", "u30B5", "u30B5", "u30A4", "u30BA">>,
          <<"u30B9", "u30C8", "u30EC", "u30C3", "u30C1">>},
         "sanzen-sango">>,
       \* ダンス|体操|リトミック|体を動|サーキット|運動|体力 -> 親子ふれあい
       <<{<<"u30C0", "u30F3", "u30B9">>,
          <<"u4F53", "u64CD">>,
          <<"u30EA", "u30C8", "u30DF", "u30C3", "u30AF">>,
          <<"u4F53", "u3092", "u52D5">>,
          <<"u30B5", "CHOON", "u30AD", "u30C3", "u30C8">>,
          <<"u904B", "u52D5">>,
          <<"u4F53", "u529B">>},
         "oyako-fureai">>,
       \* おはなし|読み聞かせ|工作|製作|おもちゃ|あそび|遊び|ふれあい -> 親子ふれあい
       <<{<<"u304A", "u306F", "u306A", "u3057">>,
          <<"u8AAD", "u307F", "u805E", "ka", "u305B">>,
          <<"u5DE5", "u4F5C">>,
          <<"u88FD", "u4F5C">>,
          <<"u304A", "u3082", "u3061", "u3083">>,
          <<"u3042", "u305D", "u3073">>,
          <<"u904A", "u3073">>,
          <<"u3075", "u308C", "u3042", "u3044">>},
         "oyako-fureai">>,
       \* 身体測定|すくすく|ハイハイ|赤ちゃん|0歳 -> 健康・医療
       <<{<<"u8EAB", "u4F53", "u6E2C", "u5B9A">>,
          <<"u3059", "u304F", "u3059", "u304F">>,
          <<"u30CF", "u30A4", "u30CF", "u30A4">>,
          <<"u8D64", "u3061", "u3083", "u3093">>,
          <<"0", "u6B73">>},
         "kenkou-iryou">>,
       \* パパ|父|ひとり親 -> 父親・家族支援
       <<{<<"u30D1", "u30D1">>,
          <<"u7236">>,
          <<"u3072", "u3068", "ri", "u89AA">>},
         "chichioya-kazoku-shien">>
    >>

RECURSIVE FirstRow(_, _, _)
FirstRow(rows, text, k) ==
    IF k > Len(rows) THEN "sonota"
    ELSE IF \E kw \in rows[k][1] : Contains(text, kw) THEN rows[k][2]
    ELSE FirstRow(rows, text, k + 1)

_guess_category(text) == FirstRow(HallCategoryRows, text, 1)

OpenParens  == {"(", "FLP"}
CloseParens == {")", "FRP"}

\* re.sub(open .*? close, '', s): a parenthesis pair on one line ("." stops at
\* a line break) is removed, up to the first closing character
RECURSIVE RemoveParensLazy(_, _)
RemoveParensLazy(s, i) ==
    IF i > Len(s) THEN <<>>
    ELSE LET closes == {j \in (i + 1)..Len(s) :
                           /\ s[j] \in CloseParens
                           /\ \A k \in (i + 1)..(j - 1) : s[k] # "\n"}
         IN  IF s[i] \in OpenParens /\ closes # {}
             THEN RemoveParensLazy(s, MinOf(closes) + 1)
             ELSE <<s[i]>> \o RemoveParensLazy(s, i + 1)

\* re.sub(open [^close]* close, '', s): as above, line breaks included
RECURSIVE RemoveParens(_, _)
RemoveParens(s, i) ==
    IF i > Len(s) THEN <<>>
    ELSE LET closes == {j \in (i + 1)..Len(s) : s[j] \in CloseParens}
         IN  IF s[i] \in OpenParens /\ closes # {}
             THEN RemoveParens(s, MinOf(closes) + 1)
             ELSE <<s[i]>> \o RemoveParens(s, i + 1)

RemoveSpace(s) == SelectSeq(s, LAMBDA c : ~IsSpace(c))

\* the texts NON_EVENT_RE matches in full (re.IGNORECASE: "(cid:" in any case)
NonEventTexts ==
    { <<"u81EA", "u7531", "u3042", "u305D", "u3073">>,
      <<"u4F11", "u9928">>,
      <<"u4F11", "u9928", "NICHI">>,
      <<"u958B", "u9928">>,
      <<"STAR">>,
      <<"u9589", "u9928">>,
      <<"u304A", "u77E5", "ra", "u305B">> }
    \cup {<<"(", c, i, d, ":">> : c \in {"c", "C"}, i \in {"i", "I"}, d \in {"d", "D"}}

_is_non_event(text) ==
    LET t == RemoveSpace(Strip(RemoveParensLazy(text, 1)))
    IN  t = <<>> \/ t \in NonEventTexts

(***************************************************************************)
(* Calendar table reconstructor: _parse_calendar_table                     *)
(* A table is a sequence of rows, a row a sequence of cells, a cell a str; *)
(* the empty str also stands for a None cell (the code tests "if c").      *)
(* Column and row indexes are 0-based, as in the source.                   *)
(***************************************************************************)
WEEKDAYS ==
    <<<<"GATSU">>, <<"KAYOU">>, <<"SUI">>, <<"MOKU">>, <<"KIN">>, <<"DO">>, <<"NICHI">>>>

IsWeekdayCell(c) == c # <<>> /\ Strip(c) \in Range(WEEKDAYS)

\* found = [ci for ci, c in enumerate(row) if ...]
RECURSIVE FoundFrom(_, _)
FoundFrom(row, ci) ==
    IF ci >= Len(row) THEN <<>>
    ELSE (IF IsWeekdayCell(row[ci + 1]) THEN <<ci>> ELSE <<>>) \o FoundFrom(row, ci + 1)

\* a wrong header test: all seven weekdays are required
HeaderRowIdxAllSeven(table) ==
    LET hits == {ri \in 0..(Len(table) - 1) : Len(FoundFrom(table[ri + 1], 0)) >= 7}
    IN  IF hits = {} THEN -1 ELSE MinOf(hits)

\* the header row: the first with 5 weekday cells or more; -1 when none
HeaderRowIdx(table) ==
    LET hits == {ri \in 0..(Len(table) - 1) : Len(FoundFrom(table[ri + 1], 0)) >= 5}
    IN  IF hits = {} THEN -1 ELSE MinOf(hits)

\* wd_cols of a header row: [weekday, start_col, end_col)
BuildWdCols(row) ==
    LET found == FoundFrom(row, 0)
    IN  [k \in 1..Len(found) |->
            [wd |-> Strip(row[found[k] + 1]),
             s  |-> found[k],
             e  |-> IF k < Len(found) THEN found[k + 1] ELSE Len(row)]]

NoBlock == [wd |-> <<"None">>, s |-> -1, e |-> -1]

get_weekday_block(wd_cols, col) ==
    LET hits == {k \in 1..Len(wd_cols) : wd_cols[k].s <= col /\ col < wd_cols[k].e}
    IN  IF hits = {} THEN NoBlock ELSE wd_cols[MinOf(hits)]

RECURSIVE Join(_, _)
Join(parts, sep) ==
    IF parts = <<>> THEN <<>>
    ELSE IF Len(parts) = 1 THEN parts[1]
    ELSE parts[1] \o sep \o Join(Tail(parts), sep)

RECURSIVE BlockParts(_, _, _, _)
BlockParts(content_row, ci, stop, parts) ==
    IF ci >= stop THEN parts
    ELSE LET c == content_row[ci + 1]
             n == _normalize(c)
         IN  BlockParts(content_row, ci + 1, stop,
                        IF c # <<>> /\ Strip(c) # <<>> /\ n \notin Range(parts)
                        THEN Append(parts, n) ELSE parts)

get_block_content(content_row, start_col, end_col) ==
    LET stop == IF end_col < Len(content_row) THEN end_col ELSE Len(content_row)
    IN  Join(BlockParts(content_row, start_col, stop, <<>>), <<"\n">>)

\* re.match(r'^[F0-F9\d]+$', c.strip())
IsDayCell(c) ==
    c # <<>> /\ Strip(c) # <<>> /\ \A k \in 1..Len(Strip(c)) : IsDigit(Strip(c)[k])

\* day_cells: <<ci, day_num>> for every bare-digit cell of the row
RECURSIVE DayCells(_, _)
DayCells(row, ci) ==
    IF ci >= Len(row) THEN <<>>
    ELSE (IF IsDayCell(row[ci + 1]) THEN <<<<ci, IntOf(_z2h(Strip(row[ci + 1])))>>>> ELSE <<>>)
         \o DayCells(row, ci + 1)

\* str.splitlines(), for texts whose only line break is "\n"
RECURSIVE SplitLines(_)
SplitLines(s) ==
    LET i == FindFrom(s, <<"\n">>, 1)
    IN  IF i = 0 THEN (IF s = <<>> THEN <<>> ELSE <<s>>)
        ELSE <<SubSeq(s, 1, i - 1)>> \o SplitLines(From(s, i + 1))

\* re.search(r'\d{1,2}:\d{2}', l)
HasClock(l) == \E i \in 1..Len(l) : ColonTimeAt(l, i).ok

LineMarkers == {"FLP", "(", "KOME", "STAR", "LBR"}

IsDescLine(l) == HasClock(l) \/ (l # <<>> /\ l[1] \in LineMarkers)

\* a wrong date step: the ValueError of date() is not caught
TryDateUncaught(year, month, day_num) ==
    IF ValidDate(year, month, day_num)
    THEN [kind |-> "date", iso |-> IsoJoin(IntStr(year), Pad2(month), Pad2(day_num))]
    ELSE [kind |-> "raise", iso |-> <<>>]

\* try: ev_date = date(year, month, day_num) / except ValueError: continue
TryDate(year, month, day_num) ==
    IF ValidDate(year, month, day_num)
    THEN [kind |-> "date", iso |-> IsoJoin(IntStr(year), Pad2(month), Pad2(day_num))]
    ELSE [kind |-> "skip", iso |-> <<>>]

\* a wrong title: the time range is left in the title of a one-line cell
TitleOfKeepTime(raw) ==
    LET lines == SelectSeq([k \in 1..Len(SplitLines(raw)) |-> Strip(SplitLines(raw)[k])],
                           LAMBDA l : l # <<>>)
        title == Strip(Join(SelectSeq(lines, LAMBDA l : ~IsDescLine(l)), <<" ">>))
    IN  IF title # <<>> THEN title
        ELSE Strip(CollapseSpace(Strip(RemoveParens(raw, 1)), 1))


\* title and description of a block's text (the lines 198-221)
TitleOf(raw) ==
    LET lines == SelectSeq([k \in 1..Len(SplitLines(raw)) |-> Strip(SplitLines(raw)[k])],
                           LAMBDA l : l # <<>>)
        title == Strip(Join(SelectSeq(lines, LAMBDA l : ~IsDescLine(l)), <<" ">>))
    IN  IF title # <<>> THEN title
        ELSE Strip(CollapseSpace(Strip(RemoveTimeRe(RemoveParens(raw, 1), 1)), 1))

DescOf(raw) ==
    LET lines == SelectSeq([k \in 1..Len(SplitLines(raw)) |-> Strip(SplitLines(raw)[k])],
                           LAMBDA l : l # <<>>)
    IN  Join(SelectSeq(lines, IsDescLine), <<" ">>)

\* the lines 219-238 for a block text with its title, description and time
CellEventTitled(a, raw, title, desc, time, d) ==
    IF _is_non_event(title) THEN [kind |-> "none"]
    ELSE IF d.kind = "skip" THEN [kind |-> "none"]
    ELSE IF d.kind = "raise" THEN [kind |-> "raise"]
    ELSE [kind |-> "event",
          ev   |-> [title       |-> title,
                    date        |-> d.iso,
                    time        |-> IF time = NoTime THEN a.default_time ELSE time,
                    description |-> desc,
                    source      |-> a.source,
                    url         |-> a.url,
                    category    |-> _guess_category(title \o desc)]]

\* the lines 194-238 for the text of a block (each part is computed once)
CellEventOf(a, raw, day_num) ==
    IF raw = <<>> \/ _is_non_event(raw) THEN [kind |-> "none"]
    ELSE CHOOSE c \in {CellEventTitled(a, raw, title, desc, time, d) :
                           title \in {TitleOf(raw)}, desc \in {DescOf(raw)},
                           time \in {_extract_time(raw)},
                           d \in {TryDate(a.year, a.month, day_num)}} : TRUE

\* the body of "for day_ci, day_num in day_cells" for one day cell:
\* kind "none" (continue), "event" (events.append) or "raise"
CellEvent(a, wd_cols, content_row, day_ci, day_num) ==
    CHOOSE c \in {IF blk = NoBlock THEN [kind |-> "none"]
                  ELSE CHOOSE e \in {CellEventOf(a, raw, day_num) :
                                         raw \in {get_block_content(content_row, blk.s, blk.e)}} : TRUE :
                      blk \in {get_weekday_block(wd_cols, day_ci)}} : TRUE

\* the events of one date row, in day_cells order; raised when a cell raised
\* the outcome of a row from the outcome of a cell and of the cells after it
AfterCell(c, rest) ==
    IF c.kind = "raise" THEN [raised |-> TRUE, events |-> <<>>]
    ELSE IF c.kind = "event"
    THEN [raised |-> rest.raised, events |-> <<c.ev>> \o rest.events]
    ELSE rest

RECURSIVE RowEvents(_, _, _, _, _)
RowEvents(a, wd_cols, content_row, day_cells, k) ==
    IF k > Len(day_cells) THEN [raised |-> FALSE, events |-> <<>>]
    ELSE CHOOSE r \in {AfterCell(c, rest) :
                           c \in {CellEvent(a, wd_cols, content_row,
                                            day_cells[k][1], day_cells[k][2])},
                           rest \in {RowEvents(a, wd_cols, content_row, day_cells, k + 1)}} : TRUE

\* lines 139-155: find the header row and build wd_cols
\* (loc.date_rows records the rows the walk took as date rows)
CalFindHeader ==
    /\ pc = "cal_header"
    /\ \E h \in {HeaderRowIdx(arg.table)} :
           IF h = -1
           THEN /\ pc' = "cal_done"
                /\ res' = <<<<>>>>
                /\ loc' = loc
           ELSE /\ pc' = "cal_walk"
                /\ \E row \in {arg.table[h + 1]} :
                     loc' = [wd_cols |-> BuildWdCols(row),
                             header_row_idx |-> h, i |-> h + 1, events |-> <<>>,
                             date_rows |-> <<>>]
                /\ res' = res
    /\ UNCHANGED <<arg, all_events, produced>>

\* a wrong walk: a date row advances the walk by one row only
CalDateRowByOne ==
    /\ pc = "cal_walk"
    /\ loc.i < Len(arg.table)
    /\ \E day_cells \in {DayCells(arg.table[loc.i + 1], 0)} :
         /\ Len(day_cells) >= 4
         /\ \E content_row \in {IF loc.i + 1 < Len(arg.table) THEN arg.table[loc.i + 2] ELSE <<>>} :
            \E r \in {RowEvents(arg, loc.wd_cols, content_row, day_cells, 1)} :
               IF r.raised
               THEN pc' = "cal_raised" /\ loc' = loc
               ELSE /\ pc' = pc
                    /\ loc' = [loc EXCEPT !.events = @ \o r.events, !.i = @ + 1,
                                           !.date_rows = Append(@, loc.i)]
    /\ UNCHANGED <<arg, res, all_events, produced>>

\* lines 176-238: one iteration of the while loop on a date row
CalDateRow ==
    /\ pc = "cal_walk"
    /\ loc.i < Len(arg.table)
    /\ \E day_cells \in {DayCells(arg.table[loc.i + 1], 0)} :
         /\ Len(day_cells) >= 4
         /\ \E content_row \in {IF loc.i + 1 < Len(arg.table) THEN arg.table[loc.i + 2] ELSE <<>>} :
            \E r \in {RowEvents(arg, loc.wd_cols, content_row, day_cells, 1)} :
               IF r.raised
               THEN pc' = "cal_raised" /\ loc' = loc
               ELSE /\ pc' = pc
                    /\ loc' = [loc EXCEPT !.events = @ \o r.events, !.i = @ + 2,
                                           !.date_rows = Append(@, loc.i)]
    /\ UNCHANGED <<arg, res, all_events, produced>>

\* lines 239-240: any other row
CalOtherRow ==
    /\ pc = "cal_walk"
    /\ loc.i < Len(arg.table)
    /\ Len(DayCells(arg.table[loc.i + 1], 0)) < 4
    /\ loc' = [loc EXCEPT !.i = @ + 1]
    /\ UNCHANGED <<pc, arg, res, all_events, produced>>

\* line 242: return events
CalReturn ==
    /\ pc = "cal_walk"
    /\ loc.i >= Len(arg.table)
    /\ pc' = "cal_done"
    /\ res' = <<loc.events>>
    /\ UNCHANGED <<arg, loc, all_events, produced>>

(***************************************************************************)
(* Simple sources A, B, C and the common event record                      *)
(* Of the common record the model keeps title, date_iso, url, source and   *)
(* needs_reservation; the other fields are copied through by the code.     *)
(***************************************************************************)
Star == <<"STAR">>

make_event(title, date_iso, url, source, needs_reservation) ==
    [title    |-> IF needs_reservation THEN Star \o title ELSE title,
     date_iso |-> date_iso,
     url      |-> url,
     source   |-> source,
     needs_reservation |-> needs_reservation]

\* is_reservation_required: 予約不要 等 / https?:// / 事前申込 等
NoReservationWords == { <<"u4E88", "u7D04", "u4E0D", "u8981">>,
                        <<"u7533", "u8FBC", "u4E0D", "u8981">>,
                        <<"u5F53", "NICHI", "u7533", "u8FBC", "u53EF">>,
                        <<"u5F53", "NICHI", "u5148", "u7740">> }
ReservationWords   == { <<"u4E8B", "ZEN", "u7533", "u8FBC">>,
                        <<"u8981", "u7533", "u8FBC">>,
                        <<"u96FB", "u8A71", "u7533", "u8FBC">>,
                        <<"u7533", "u8FBC", "u307F">>,
                        <<"u7533", "u3057", "u8FBC", "u307F">> }
UrlStarts == {<<"h", "t", "t", "p", ":", "/", "/">>, <<"h", "t", "t", "p", "s", ":", "/", "/">>}

is_reservation_required(text) ==
    IF text = <<>> THEN FALSE
    ELSE IF \E kw \in NoReservationWords : Contains(text, kw) THEN FALSE
    ELSE IF \E u \in UrlStarts : Contains(text, u) THEN TRUE
    ELSE \E kw \in ReservationWords : Contains(text, kw)

\* (\d{lo,hi}) followed at once by the character c, at i
DigitsThenAtOnce(s, i, lo, hi, c) ==
    LET r == DigitRun(s, i)
    IN  [ok |-> r >= lo /\ r <= hi /\ i + r <= Len(s) /\ s[i + r] = c, n |-> r]

\* to_iso: re.match(r"(\d{4})NEN(\d{1,2})GATSU(\d{1,2})NICHI", s)
to_iso(s) ==
    LET y  == DigitsThenAtOnce(s, 1, 4, 4, "NEN")
        mo == DigitsThenAtOnce(s, 6, 1, 2, "GATSU")
        j  == 6 + mo.n + 1
        dy == DigitsThenAtOnce(s, j, 1, 2, "NICHI")
    IN  IF y.ok /\ mo.ok /\ dy.ok
        THEN IsoJoin(SubSeq(s, 1, 4), ZFill2(SubSeq(s, 6, 5 + mo.n)),
                     ZFill2(SubSeq(s, j, j + dy.n - 1)))
        ELSE <<>>

SOURCE_A == "kosodate-navi"            \* 子育てナビ
SOURCE_B == "sogo-kosodate-shien-center" \* 総合子育て支援センター
SOURCE_C == "kodomo-bunka-kaikan"      \* こども文化会館

\* parse_kosodate_html on the anchors of one list page: an anchor is
\* [url, title, kidate], kidate being what find_kidate returned for it
RECURSIVE ParseAnchors(_, _, _)
ParseAnchors(anchors, k, seen_urls) ==
    IF k > Len(anchors) THEN <<>>
    ELSE LET a == anchors[k]
         IN  IF a.title = <<>> \/ a.kidate = <<>> \/ a.url \in seen_urls
             THEN ParseAnchors(anchors, k + 1, seen_urls)
             ELSE <<make_event(a.title, to_iso(a.kidate), a.url, SOURCE_A, FALSE)>>
                  \o ParseAnchors(anchors, k + 1, seen_urls \cup {a.url})

\* a wrong parse: a link met twice on the page gives two events
RECURSIVE ParseKeepRepeats(_)
ParseKeepRepeats(anchors) ==
    IF anchors = <<>> THEN <<>>
    ELSE (IF Head(anchors).title = <<>> \/ Head(anchors).kidate = <<>> THEN <<>>
          ELSE <<make_event(Head(anchors).title, to_iso(Head(anchors).kidate),
                            Head(anchors).url, SOURCE_A, FALSE)>>)
         \o ParseKeepRepeats(Tail(anchors))

parse_kosodate_html(anchors) == ParseAnchors(anchors, 1, {})

PageLimitA == 10

\* the loop of scrape_kosodate_with_page over the list pages 1..10; a page
\* past the end of "pages" has no anchors
RECURSIVE KosodatePages(_, _, _)
KosodatePages(pages, page_num, acc) ==
    IF page_num > PageLimitA THEN acc
    ELSE LET events   == parse_kosodate_html(IF page_num <= Len(pages)
                                             THEN pages[page_num] ELSE <<>>)
             existing == {acc[k].url : k \in 1..Len(acc)}
             new      == SelectSeq(events, LAMBDA e : e.url \notin existing)
         IN  IF events = <<>> \/ new = <<>> THEN acc
             ELSE KosodatePages(pages, page_num + 1, acc \o new)

scrape_kosodate_with_page(pages) == KosodatePages(pages, 1, <<>>)

\* one pass of "for page_num in range(1, 11)", lines 1854-1874: the page is
\* fetched and parsed; the loop ends on a page with no event or no new URL
\* (loc.fetched counts the pages fetched)
PageFetch ==
    /\ pc = "pages"
    /\ loc.page_num <= PageLimitA
    /\ \E events \in {parse_kosodate_html(IF loc.page_num <= Len(arg.pages)
                                          THEN arg.pages[loc.page_num] ELSE <<>>)} :
         LET existing == {loc.all_events[k].url : k \in 1..Len(loc.all_events)}
             new      == SelectSeq(events, LAMBDA e : e.url \notin existing)
         IN  IF events = <<>> \/ new = <<>>
             THEN /\ pc' = "pages_done"
                  /\ loc' = [loc EXCEPT !.fetched = @ + 1]
                  /\ res' = <<loc.all_events>>
             ELSE /\ pc' = pc
                  /\ loc' = [page_num |-> loc.page_num + 1, all_events |-> loc.all_events \o new,
                             fetched |-> loc.fetched + 1]
                  /\ res' = res
    /\ UNCHANGED <<arg, all_events, produced>>

\* the range is used up: return all_events (lines 1875-1876)
PageRangeEnd ==
    /\ pc = "pages"
    /\ loc.page_num > PageLimitA
    /\ pc' = "pages_done"
    /\ res' = <<loc.all_events>>
    /\ UNCHANGED <<arg, loc, all_events, produced>>

URL_B == "URL_B"

\* scrape_sogo_center_with_page on the h3 entries of the event section: an
\* entry is [title, kijitsu, apply], an h3 and the fields of the table that
\* follows it.  str(soup).find(str(tag)) is the place of the first tag with
\* the same markup: the first h3 of that title, the first table of those fields
FirstH3(entries, k) ==
    MinOf({j \in 1..Len(entries) : entries[j].title = entries[k].title})

FirstTable(entries, k) ==
    MinOf({j \in 1..Len(entries) : /\ entries[j].kijitsu = entries[k].kijitsu
                                   /\ entries[j].apply = entries[k].apply})

\* if table_pos > next_h3_pos: continue
TableAfterNextH3(entries, k) ==
    /\ k < Len(entries)
    /\ FirstTable(entries, k) >= FirstH3(entries, k + 1)

RECURSIVE SogoEntries(_, _, _)
SogoEntries(entries, k, now) ==
    IF k > Len(entries) THEN <<>>
    ELSE LET h        == entries[k]
             date_iso == normalize_date(h.kijitsu, now.year, now.month, now.year)
         IN  (IF \/ TableAfterNextH3(entries, k)
                 \/ h.kijitsu = <<>>
                 \/ date_iso = <<>>
              THEN <<>>
              ELSE <<make_event(h.title, date_iso, URL_B, SOURCE_B,
                                is_reservation_required(h.apply))>>)
             \o SogoEntries(entries, k + 1, now)

scrape_sogo_center_with_page(entries, now) == SogoEntries(entries, 1, now)

\* KODOMOBUNKA_KW: 乳幼児, 保護者同伴, 乳児, 赤ちゃん, ベビー, 0歳,
\* ハーフバースデー, ハイハイ, みつばち
KODOMOBUNKA_KW == { <<"u4E73", "u5E7C", "u5150">>,
                    <<"u4FDD", "u8B77", "u8005", "u540C", "u4F34">>,
                    <<"u4E73", "u5150">>,
                    <<"u8D64", "u3061", "u3083", "u3093">>,
                    <<"u30D9", "u30D3", "CHOON">>,
                    <<"0", "u6B73">>,
                    <<"u30CF", "CHOON", "u30D5", "u30D0", "CHOON", "u30B9", "u30C7", "CHOON">>,
                    <<"u30CF", "u30A4", "u30CF", "u30A4">>,
                    <<"u307F", "u3064", "u3070", "u3061">> }

\* the first match of (20\d{2}) in ct, 0 when there is none
YearAt(ct) ==
    LET hits == {i \in 1..Len(ct) : /\ StartsWithAt(ct, i, <<"2", "0">>)
                                    /\ DigitRun(ct, i + 2) >= 2}
    IN  IF hits = {} THEN 0 ELSE MinOf(hits)

\* (\d{1,2})GATSU(\d{1,2})NICHI at i, nothing between the groups
MonthDayAtOnce(s, i) ==
    LET g1 == DigitsThenAtOnce(s, i, 1, 2, "GATSU")
        j  == i + g1.n + 1
        g2 == DigitsThenAtOnce(s, j, 1, 2, "NICHI")
    IN  [ok |-> g1.ok /\ g2.ok,
         mo |-> SubSeq(s, i, i + g1.n - 1),
         dy |-> SubSeq(s, j, j + g2.n - 1)]

\* 対象[/／]([^\s　参加費定員]+): the group of the first match, "" when none
TargetMark  == <<"u5BFE", "u8C61">>
TargetSlash == {"/", "uFF0F"}
TargetStop  == Range(<<"u53C2", "u52A0", "u8CBB", "u5B9A", "u54E1">>)

RECURSIVE TargetRun(_, _)
TargetRun(ct, i) ==
    IF i <= Len(ct) /\ ~IsSpace(ct[i]) /\ ct[i] \notin TargetStop
    THEN 1 + TargetRun(ct, i + 1) ELSE 0

TargetOf(ct) ==
    LET hits == {i \in 1..Len(ct) : /\ StartsWithAt(ct, i, TargetMark)
                                    /\ i + 2 <= Len(ct)
                                    /\ ct[i + 2] \in TargetSlash
                                    /\ TargetRun(ct, i + 3) >= 1}
    IN  IF hits = {} THEN <<>>
        ELSE LET i == MinOf(hits) IN SubSeq(ct, i + 3, i + 2 + TargetRun(ct, i + 3))

\* (事前申込|当日申込可): the text of the first match, "" when none
ApplyAhead  == <<"u4E8B", "ZEN", "u7533", "u8FBC">>
ApplyOnDay  == <<"u5F53", "NICHI", "u7533", "u8FBC", "u53EF">>

ApplyOf(ct) ==
    LET hits == {i \in 1..Len(ct) : \/ StartsWithAt(ct, i, ApplyAhead)
                                    \/ StartsWithAt(ct, i, ApplyOnDay)}
    IN  IF hits = {} THEN <<>>
        ELSE IF StartsWithAt(ct, MinOf(hits), ApplyAhead) THEN ApplyAhead
        ELSE ApplyOnDay

\* scrape_kodomobunka on the event.cgi links of the page: a link is
\* [title, url, ct], ct being the text of the container found for it
RECURSIVE KodomobunkaLinks(_, _, _, _)
KodomobunkaLinks(links, k, seen, now) ==
    IF k > Len(links) THEN <<>>
    ELSE LET a    == links[k]
             ct   == a.ct
             y    == YearAt(ct)
             year == IF y # 0 THEN SubSeq(ct, y, y + 3) ELSE IntStr(now.year)
             dms  == {i \in 1..Len(ct) : MonthDayAtOnce(ct, i).ok}
             dm   == MonthDayAtOnce(ct, MinOf(dms))
             date_iso    == IsoJoin(year, ZFill2(dm.mo), ZFill2(dm.dy))
             target_text == TargetOf(ct)
             needs_res   == Contains(ApplyOf(ct), ApplyAhead)
             check       == a.title \o <<" ">> \o target_text
         IN  IF \/ a.title = <<>> \/ a.title \in seen
                \/ dms = {}
                \/ ~\E kw \in KODOMOBUNKA_KW : Contains(check, kw)
             THEN KodomobunkaLinks(links, k + 1, seen, now)
             ELSE <<make_event(a.title, date_iso, a.url, SOURCE_C, needs_res)>>
                  \o KodomobunkaLinks(links, k + 1, seen \cup {a.title}, now)

scrape_kodomobunka(links, now) == KodomobunkaLinks(links, 1, {}, now)

(***************************************************************************)
(* Source D: scrape_all_halls and its adaptation to the common record      *)
(* A hall event is [title, date, description, source, url].                *)
(***************************************************************************)
\* the "source" of each entry of HALL_CONFIGS, in order (幸田, 西部, 西原,
\* 託麻, 秋津, 呉服, 天明, 大江, 城南); "pdf_url" is None in every entry
HALL_CONFIGS == <<"KODA", "SEIBU", "NISHIHARA", "TAKUMA", "AKITSU",
                  "GOFUKU", "TENMEI", "OOE", "JONAN">>

Moushikomi == <<"u7533", "u8FBC">>   \* 申込
Yoyaku     == <<"u4E88", "u7D04">>   \* 予約

_hall_event_to_common(ev) ==
    LET title     == ev.title
        desc      == ev.description
        starred   == StartsWithAt(title, 1, Star)
        needs_res == starred \/ Contains(desc, Moushikomi) \/ Contains(desc, Yoyaku)
    IN  [title    |-> IF starred THEN title
                      ELSE IF needs_res THEN Star \o title ELSE title,
         date_iso |-> ev.date,
         url      |-> ev.url,
         source   |-> ev.source,
         needs_reservation |-> needs_res]

\* [_hall_event_to_common(e) for e in raw]
scrape_all_halls_adapted(raw) == [k \in 1..Len(raw) |-> _hall_event_to_common(raw[k])]

(***************************************************************************)
(* The final sort of scrape: list.sort is stable and compares the keys,    *)
(* which are str, code point by code point                                 *)
(***************************************************************************)
\* ord() of the characters a date_iso is made of
Ord(c) ==
    IF c = "-" THEN 45
    ELSE IF c \in Range(AsciiDigits) THEN 48 + DigitVal(c)
    ELSE 65296 + DigitVal(c)

RECURSIVE StrLess(_, _)
StrLess(a, b) ==
    IF b = <<>> THEN FALSE
    ELSE IF a = <<>> THEN TRUE
    ELSE IF Head(a) # Head(b) THEN Ord(Head(a)) < Ord(Head(b))
    ELSE StrLess(Tail(a), Tail(b))

\* key=lambda e: e.get("date_iso") or "9999"
SortKey(e) == IF e.date_iso = <<>> THEN <<"9", "9", "9", "9">> ELSE e.date_iso

\* e is put after the last element whose key is not greater than its own
RECURSIVE InsertByKey(_, _)
InsertByKey(sorted, e) ==
    IF sorted = <<>> THEN <<e>>
    ELSE LET last == sorted[Len(sorted)]
         IN  IF StrLess(SortKey(e), SortKey(last))
             THEN Append(InsertByKey(SubSeq(sorted, 1, Len(sorted) - 1), e), last)
             ELSE Append(sorted, e)

RECURSIVE SortByDateIso(_)
SortByDateIso(events) ==
    IF events = <<>> THEN <<>>
    ELSE InsertByKey(SortByDateIso(SubSeq(events, 1, Len(events) - 1)),
                     events[Len(events)])

(***************************************************************************)
(* scrape() and scrape_all_halls(pdf_map), step by step                    *)
(* arg = [entry, pdf_map, now]; loc = [k, raw] is the loop of              *)
(* scrape_all_halls; all_events is the list of scrape(); produced records  *)
(* what every source and adapter did: [src, hall, raised, events].         *)
(***************************************************************************)
\* a wrong handler: the exception leaves the function
CaughtReraised(next) == "aborted"

\* except Exception: the error is printed and control goes on after the try
Caught(next) == next

Returned(src, hall, events) ==
    [src |-> src, hall |-> hall, raised |-> FALSE, events |-> events]

Raised(src, hall) ==
    [src |-> src, hall |-> hall, raised |-> TRUE, events |-> <<>>]

\* try: all_events.extend(<source>) when the source returns events
SourceReturns(at, next, src, events) ==
    /\ pc = at
    /\ all_events' = all_events \o events
    /\ produced' = Append(produced, Returned(src, FALSE, events))
    /\ pc' = next
    /\ UNCHANGED <<arg, loc, res>>

\* ... and when it raises
SourceRaises(at, next, src) ==
    /\ pc = at
    /\ produced' = Append(produced, Raised(src, FALSE))
    /\ pc' = Caught(next)
    /\ UNCHANGED <<arg, loc, res, all_events>>

(***************************************************************************)
(* Year and month of a hall PDF: _get_year_month_from_pdf_text and         *)
(* _get_year_month_from_metadata.  A result is [y, mo].                    *)
(***************************************************************************)
Gou   == <<"GATSU", "u53F7">>   \* 月号
Nendo == <<"NEN", "u5EA6">>     \* 年度

\* 令和\s*(\d+)\s*年\s*(\d+)\s*月 at i
ReiwaMonthAt(t, i) ==
    LET i1 == SkipSpace(t, i + 2)
        g1 == DigitsThen(t, i1, 1, Len(t), "NEN")
        j  == SkipSpace(t, g1.next)
        g2 == DigitsThen(t, j, 1, Len(t), "GATSU")
    IN  IF StartsWithAt(t, i, Reiwa) /\ g1.ok /\ g2.ok
        THEN [ok |-> TRUE, y |-> SubSeq(t, i1, i1 + g1.n - 1),
              mo |-> SubSeq(t, j, j + g2.n - 1)]
        ELSE [ok |-> FALSE, y |-> <<>>, mo |-> <<>>]

\* (20\d{2})\s*年\s*(\d{1,2})\s*月 at i
WestMonthAt(t, i) ==
    LET g1 == DigitsThen(t, i, 4, 4, "NEN")
        j  == SkipSpace(t, g1.next)
        g2 == DigitsThen(t, j, 1, 2, "GATSU")
    IN  IF StartsWithAt(t, i, <<"2", "0">>) /\ g1.ok /\ g2.ok
        THEN [ok |-> TRUE, y |-> SubSeq(t, i, i + 3), mo |-> SubSeq(t, j, j + g2.n - 1)]
        ELSE [ok |-> FALSE, y |-> <<>>, mo |-> <<>>]

\* [（(](20\d{2})年[）)] at i
ParenYearAt(t, i) ==
    IF /\ i + 6 <= Len(t)
       /\ t[i] \in OpenParens
       /\ StartsWithAt(t, i + 1, <<"2", "0">>)
       /\ IsDigit(t[i + 3]) /\ IsDigit(t[i + 4])
       /\ t[i + 5] = "NEN"
       /\ t[i + 6] \in CloseParens
    THEN [ok |-> TRUE, y |-> SubSeq(t, i + 1, i + 4)]
    ELSE [ok |-> FALSE, y |-> <<>>]

\* (\d+)月号 at i
GouAt(t, i) ==
    LET r == DigitRun(t, i)
    IN  IF r >= 1 /\ StartsWithAt(t, i + r, Gou)
        THEN [ok |-> TRUE, mo |-> SubSeq(t, i, i + r - 1)]
        ELSE [ok |-> FALSE, mo |-> <<>>]

\* 令和\s*(\d+)\s*年度 at i
NendoAt(t, i) ==
    LET j == SkipSpace(t, i + 2)
        r == DigitRun(t, j)
    IN  IF StartsWithAt(t, i, Reiwa) /\ r >= 1
           /\ StartsWithAt(t, SkipSpace(t, j + r), Nendo)
        THEN [ok |-> TRUE, y |-> SubSeq(t, j, j + r - 1)]
        ELSE [ok |-> FALSE, y |-> <<>>]

\* (\d{1,2})\s*月 at i
TsukiAt(t, i) ==
    LET g == DigitsThen(t, i, 1, 2, "GATSU")
    IN  IF g.ok THEN [ok |-> TRUE, mo |-> SubSeq(t, i, i + g.n - 1)]
        ELSE [ok |-> FALSE, mo |-> <<>>]

\* t[:150]
TsukiWindow == 150

YM(y, mo) == [y |-> y, mo |-> mo]

\* a wrong resolver: the school-year pattern is tried before the others
YearMonthNendoFirst(text, fallback_year, fallback_month) ==
    LET t      == _z2h(text)
        head   == SubSeq(t, 1, IF Len(t) < TsukiWindow THEN Len(t) ELSE TsukiWindow)
        reiwa  == {i \in 1..Len(t) : ReiwaMonthAt(t, i).ok}
        nendo  == {i \in 1..Len(t) : NendoAt(t, i).ok}
        tsuki  == {i \in 1..Len(head) : TsukiAt(head, i).ok}
    IN  IF nendo # {} /\ tsuki # {}
        THEN YM(IntOf(NendoAt(t, MinOf(nendo)).y) + 2018, IntOf(TsukiAt(head, MinOf(tsuki)).mo))
        ELSE IF reiwa # {}
        THEN YM(IntOf(ReiwaMonthAt(t, MinOf(reiwa)).y) + 2018,
                IntOf(ReiwaMonthAt(t, MinOf(reiwa)).mo))
        ELSE YM(fallback_year, fallback_month)

_get_year_month_from_pdf_text(text, fallback_year, fallback_month) ==
    LET t      == _z2h(text)
        head   == SubSeq(t, 1, IF Len(t) < TsukiWindow THEN Len(t) ELSE TsukiWindow)
        reiwa  == {i \in 1..Len(t) : ReiwaMonthAt(t, i).ok}
        west   == {i \in 1..Len(t) : WestMonthAt(t, i).ok}
        m_year == {i \in 1..Len(t) : ParenYearAt(t, i).ok}
        m_month == {i \in 1..Len(t) : GouAt(t, i).ok}
        m_nendo == {i \in 1..Len(t) : NendoAt(t, i).ok}
        m_tsuki == {i \in 1..Len(head) : TsukiAt(head, i).ok}
    IN  IF reiwa # {}
        THEN YM(IntOf(ReiwaMonthAt(t, MinOf(reiwa)).y) + 2018,
                IntOf(ReiwaMonthAt(t, MinOf(reiwa)).mo))
        ELSE IF west # {}
        THEN YM(IntOf(WestMonthAt(t, MinOf(west)).y), IntOf(WestMonthAt(t, MinOf(west)).mo))
        ELSE IF m_year # {} /\ m_month # {}
        THEN YM(IntOf(ParenYearAt(t, MinOf(m_year)).y), IntOf(GouAt(t, MinOf(m_month)).mo))
        ELSE IF m_nendo # {} /\ m_tsuki # {}
        THEN LET reiwa_y == IntOf(NendoAt(t, MinOf(m_nendo)).y)
                 mo      == IntOf(TsukiAt(head, MinOf(m_tsuki)).mo)
             IN  YM(reiwa_y + 2018 + (IF mo <= 3 THEN 1 ELSE 0), mo)
        ELSE YM(fallback_year, fallback_month)

\* D:(\d{4})(\d{2})(\d{2}) at i of metadata.get('CreationDate', '')
CreationAt(cd, i) ==
    IF StartsWithAt(cd, i, <<"D", ":">>) /\ DigitRun(cd, i + 2) >= 8
    THEN [ok |-> TRUE, y |-> SubSeq(cd, i + 2, i + 5), mo |-> SubSeq(cd, i + 6, i + 7)]
    ELSE [ok |-> FALSE, y |-> <<>>, mo |-> <<>>]

\* a wrong resolver: the month after the creation month, December included
YearMonthNoRollover(creation_date, text, fallback_year, fallback_month) ==
    LET found == _get_year_month_from_pdf_text(text, 0, 0)
        cd_m  == {i \in 1..Len(creation_date) : CreationAt(creation_date, i).ok}
        cd    == CreationAt(creation_date, MinOf(cd_m))
    IN  IF found.y # 0 THEN found
        ELSE IF cd_m # {} THEN YM(IntOf(cd.y), IntOf(cd.mo) + 1)
        ELSE YM(fallback_year, fallback_month)

\* creation_date is metadata.get('CreationDate', '')
_get_year_month_from_metadata(creation_date, text, fallback_year, fallback_month) ==
    LET found == _get_year_month_from_pdf_text(text, 0, 0)
        cd_m  == {i \in 1..Len(creation_date) : CreationAt(creation_date, i).ok}
        cd    == CreationAt(creation_date, MinOf(cd_m))
        t     == _z2h(text)
        m     == {i \in 1..Len(t) : GouAt(t, i).ok}
    IN  IF found.y # 0 THEN found
        ELSE IF m # {} /\ cd_m # {}
        THEN LET month == IntOf(GouAt(t, MinOf(m)).mo)
                 cy    == IntOf(cd.y)
                 cmo   == IntOf(cd.mo)
             IN  IF month >= cmo THEN YM(cy, month) ELSE YM(cy + 1, month)
        ELSE IF cd_m # {}
        THEN LET y2  == IntOf(cd.y)
                 mo2 == IntOf(cd.mo) + 1
             IN  IF mo2 > 12 THEN YM(y2 + 1, 1) ELSE YM(y2, mo2)
        ELSE YM(fallback_year, fallback_month)

\* the two resolvers called on the same text, one after the other
YearMonthFromText ==
    /\ pc = "ym_text"
    /\ res' = <<_get_year_month_from_pdf_text(arg.text, arg.fallback_year,
                                              arg.fallback_month)>>
    /\ pc' = "ym_metadata"
    /\ UNCHANGED <<arg, loc, all_events, produced>>

YearMonthFromMetadata ==
    /\ pc = "ym_metadata"
    /\ res' = Append(res, _get_year_month_from_metadata(arg.creation_date, arg.text,
                                                         arg.fallback_year,
                                                         arg.fallback_month))
    /\ pc' = "ym_done"
    /\ UNCHANGED <<arg, loc, all_events, produced>>

(***************************************************************************)
(* scrape_gofuku: the scanned PDF of one hall.  arg.manual stands for      *)
(* manual_json_path and the file it names, arg.pdf for what                *)
(* pdfplumber.open makes of pdf_bytes.  loc.log is what the logger was     *)
(* given, res the returned list; pc = "gofuku_raised" is an exception      *)
(* leaving the function.                                                   *)
(***************************************************************************)
GOFUKU_SOURCE == "GOFUKU"

Logged(level, source) == [level |-> level, source |-> source]

\* if manual_json_path: ... p.exists(): return the list read from the file
GofukuManualJson ==
    /\ pc = "gofuku"
    /\ arg.manual.path /\ arg.manual.exists /\ arg.manual.json
    /\ loc' = [loc EXCEPT !.log = Append(@, Logged("info", GOFUKU_SOURCE))]
    /\ res' = <<arg.manual.events>>
    /\ pc' = "gofuku_done"
    /\ UNCHANGED <<arg, all_events, produced>>

\* _json.loads raises on a file that is not JSON
GofukuManualJsonError ==
    /\ pc = "gofuku"
    /\ arg.manual.path /\ arg.manual.exists /\ ~arg.manual.json
    /\ pc' = "gofuku_raised"
    /\ UNCHANGED <<arg, loc, res, all_events, produced>>

\* the path is given and no file is there: a warning, then the PDF
GofukuManualMissing ==
    /\ pc = "gofuku"
    /\ arg.manual.path /\ ~arg.manual.exists
    /\ loc' = [loc EXCEPT !.log = Append(@, Logged("warning", GOFUKU_SOURCE))]
    /\ pc' = "gofuku_pdf"
    /\ UNCHANGED <<arg, res, all_events, produced>>

\* no path is given
GofukuNoManual ==
    /\ pc = "gofuku"
    /\ ~arg.manual.path
    /\ pc' = "gofuku_pdf"
    /\ UNCHANGED <<arg, loc, res, all_events, produced>>

\* pdfplumber.open, pdf.pages[0], the year and month, the warning, return []
GofukuPdf ==
    /\ pc = "gofuku_pdf"
    /\ arg.pdf.opens /\ Len(arg.pdf.pages) >= 1
    /\ LET text  == arg.pdf.pages[1]
           found == _get_year_month_from_pdf_text(text, 0, 0)
           ym    == IF found.y = 0
                    THEN _get_year_month_from_metadata(arg.pdf.creation_date, text,
                                                       arg.now.year, arg.now.month)
                    ELSE found
       IN  loc' = [loc EXCEPT !.log = Append(@, Logged("warning", GOFUKU_SOURCE)),
                              !.year_month = ym]
    /\ res' = << <<>> >>
    /\ pc' = "gofuku_done"
    /\ UNCHANGED <<arg, all_events, produced>>

\* pdfplumber.open raises on bytes that are no PDF; pdf.pages[0] raises
\* IndexError on a PDF without pages
GofukuPdfError ==
    /\ pc = "gofuku_pdf"
    /\ ~arg.pdf.opens \/ Len(arg.pdf.pages) = 0
    /\ pc' = "gofuku_raised"
    /\ UNCHANGED <<arg, loc, res, all_events, produced>>

(***************************************************************************)
(* The table an adapter works on.  arg.tables is page.extract_tables() of  *)
(* the first page (arg.back_tables that of the back page of hanazono).     *)
(* Each adapter is followed from the extraction to the table it picks: it  *)
(* returns [] after a warning ("warned"), lets an exception out            *)
(* ("raised"), or goes on with the table ("chosen").                       *)
(***************************************************************************)
\* key=lambda t: len(t) * len(t[0]) if t else 0
TableSize(t) == IF t = <<>> THEN 0 ELSE Len(t) * Len(t[1])

\* max(tables, key=...): the first table of the largest size
MaxTable(tables) ==
    LET best == {k \in 1..Len(tables) :
                    \A j \in 1..Len(tables) : TableSize(tables[j]) <= TableSize(tables[k])}
    IN  tables[MinOf(best)]

Warned    == [outcome |-> "warned", table |-> <<>>]
RaisedOut == [outcome |-> "raised", table |-> <<>>]
Chosen(t) == [outcome |-> "chosen", table |-> t]

\* if not tables or len(tables) < 3: warning, return []
scrape_koda_table(tables) ==
    IF tables = <<>> \/ Len(tables) < 3 THEN Warned ELSE Chosen(MaxTable(tables))

\* if not tables: warning, return []
scrape_seibu_table(tables) ==
    IF tables = <<>> THEN Warned ELSE Chosen(MaxTable(tables))

\* if not tables or len(tables) < 2: warning, return []; act_table = tables[1]
scrape_nishihara_table(tables) ==
    IF tables = <<>> \/ Len(tables) < 2 THEN Warned ELSE Chosen(tables[2])

\* cal_table = tables[0]; _hanazono_build_wd_cols(cal_table[0]); back_tables[0]
scrape_hanazono_table(tables, back_tables) ==
    IF Len(tables) < 1 THEN RaisedOut
    ELSE IF Len(tables[1]) < 1 THEN RaisedOut
    ELSE IF Len(back_tables) < 1 THEN RaisedOut
    ELSE Chosen(tables[1])

\* cal_table = next((t for t in tables if t and len(t[0]) >= 20), max(tables, ...));
\* cal_table[0]
scrape_takuma_table(tables) ==
    IF tables = <<>> THEN RaisedOut
    ELSE LET wide == {k \in 1..Len(tables) : tables[k] # <<>> /\ Len(tables[k][1]) >= 20}
             cal_table == IF wide # {} THEN tables[MinOf(wide)] ELSE MaxTable(tables)
         IN  IF Len(cal_table) < 1 THEN RaisedOut ELSE Chosen(cal_table)

\* cal_table = tables[0]; cal_table[0]
scrape_akitsu_table(tables) ==
    IF Len(tables) < 1 THEN RaisedOut
    ELSE IF Len(tables[1]) < 1 THEN RaisedOut
    ELSE Chosen(tables[1])

\* cal = tables[1]
scrape_tenmei_table(tables) ==
    IF Len(tables) < 2 THEN RaisedOut ELSE Chosen(tables[2])

\* cal = tables[0]
scrape_jonan_table(tables) ==
    IF Len(tables) < 1 THEN RaisedOut ELSE Chosen(tables[1])

\* the step of one adapter from the extracted tables to its table
PickTable(hall, out) ==
    /\ pc = "tables"
    /\ arg.hall = hall
    /\ pc' = "tables_" \o out.outcome
    /\ loc' = [log |-> IF out.outcome = "warned"
                       THEN Append(loc.log, Logged("warning", hall)) ELSE loc.log,
               cal_table |-> out.table]
    /\ res' = IF out.outcome = "warned" THEN << <<>> >> ELSE res
    /\ UNCHANGED <<arg, all_events, produced>>

ScrapeKodaTable      == PickTable("KODA", scrape_koda_table(arg.tables))
ScrapeSeibuTable     == PickTable("SEIBU", scrape_seibu_table(arg.tables))
ScrapeNishiharaTable == PickTable("NISHIHARA", scrape_nishihara_table(arg.tables))
ScrapeHanazonoTable  == PickTable("HANAZONO", scrape_hanazono_table(arg.tables, arg.back_tables))
ScrapeTakumaTable    == PickTable("TAKUMA", scrape_takuma_table(arg.tables))
ScrapeAkitsuTable    == PickTable("AKITSU", scrape_akitsu_table(arg.tables))
ScrapeTenmeiTable    == PickTable("TENMEI", scrape_tenmei_table(arg.tables))
ScrapeJonanTable     == PickTable("JONAN", scrape_jonan_table(arg.tables))

\* koda and seibu hand their table to _parse_calendar_table: without a header
\* row it logs a warning with the source and returns [], and so does the adapter
CalTableHeader ==
    /\ pc = "tables_chosen"
    /\ arg.hall \in {"KODA", "SEIBU"}
    /\ IF HeaderRowIdx(loc.cal_table) = -1
       THEN /\ pc' = "tables_warned"
            /\ loc' = [loc EXCEPT !.log = Append(@, Logged("warning", arg.hall))]
            /\ res' = << <<>> >>
       ELSE /\ pc' = "tables_header"
            /\ UNCHANGED <<loc, res>>
    /\ UNCHANGED <<arg, all_events, produced>>

(***************************************************************************)
(* scrape_hanazono: the calendar of the front page joined with the details *)
(* of the back page.  back_detail, a dict keyed by (month, day), is a      *)
(* sequence of entries in insertion order.                                 *)
(***************************************************************************)
HANAZONO_SOURCE == "HANAZONO"
HANAZONO_URL    == "HANAZONO_URL"

Shougaku == <<"u5C0F", "u5B66">>             \* 小学
Nyuuyouji == <<"u4E73", "u5E7C", "u5150">>   \* 乳幼児
ZeroSai  == <<"0", "u6B73">>                 \* 0歳
Taishou  == <<"LBR", "u5BFE", "u8C61", "u3011">>   \* 【対象】
TitleOpen  == {"u300C", "u300E"}             \* 「『
TitleClose == {"u300D", "u300F"}             \* 」』

\* TITLE_RE = ^[「『](.+?)[」』]: the group, <<"None">> when there is no match
BackTitleOf(text) ==
    LET closes == {j \in 3..Len(text) :
                      /\ text[j] \in TitleClose
                      /\ \A k \in 2..(j - 1) : text[k] # "\n"}
    IN  IF text # <<>> /\ text[1] \in TitleOpen /\ closes # {}
        THEN SubSeq(text, 2, MinOf(closes) - 1)
        ELSE <<"None">>

\* (\d+)月\s*(\d+)日 at i
BackDateAt(text, i) ==
    LET r1 == DigitRun(text, i)
        j  == SkipSpace(text, i + r1 + 1)
        r2 == DigitRun(text, j)
    IN  IF /\ r1 >= 1 /\ i + r1 <= Len(text) /\ text[i + r1] = "GATSU"
           /\ r2 >= 1 /\ j + r2 <= Len(text) /\ text[j + r2] = "NICHI"
        THEN [ok |-> TRUE, mo |-> SubSeq(text, i, i + r1 - 1), dy |-> SubSeq(text, j, j + r2 - 1)]
        ELSE [ok |-> FALSE, mo |-> <<>>, dy |-> <<>>]

\* (\d{1,2}:\d{2})[〜～](\d{1,2}:\d{2}) at i: f"{g1}〜{g2}"
BackTimeAt(text, i) ==
    LET n1 == D12Then(text, i, ":")
        j  == i + n1 + 4
        n2 == D12Then(text, j, ":")
    IN  IF /\ ColonTimeAt(text, i).ok
           /\ i + n1 + 3 <= Len(text) /\ text[i + n1 + 3] \in {"WAVE", "FTILDE"}
           /\ ColonTimeAt(text, j).ok
        THEN [ok |-> TRUE,
              time |-> SubSeq(text, i, i + n1 + 2) \o <<"WAVE">> \o SubSeq(text, j, j + n2 + 2)]
        ELSE [ok |-> FALSE, time |-> <<>>]

\* str.replace('\n', ' ')
NewlineToSpace(s) == [k \in 1..Len(s) |-> IF s[k] = "\n" THEN " " ELSE s[k]]

\* 【対象】(.+?)(?=【|$) with re.DOTALL: the group of the first match, stripped,
\* line breaks replaced; "" when there is no match
BackTargetOf(text) ==
    LET hits == {i \in 1..Len(text) : StartsWithAt(text, i, Taishou) /\ i + 4 <= Len(text)}
        p    == MinOf(hits) + 4
        ends == {q \in (p + 1)..(Len(text) + 1) :
                    \/ q = Len(text) + 1
                    \/ text[q] = "LBR"
                    \/ (q = Len(text) /\ text[q] = "\n")}
    IN  IF hits = {} THEN <<>>
        ELSE NewlineToSpace(Strip(SubSeq(text, p, MinOf(ends) - 1)))

\* detail[(mo, day)] = entry: an existing key keeps its place
DetailPut(detail, entry) ==
    LET at == {k \in 1..Len(detail) : detail[k].month = entry.month /\ detail[k].day = entry.day}
    IN  IF at = {} THEN Append(detail, entry)
        ELSE [detail EXCEPT ![MinOf(at)] = entry]

\* the body of "for cell in row" of _hanazono_parse_back
BackCell(detail, cell, year) ==
    LET text   == _z2h(cell)
        title  == BackTitleOf(text)
        dates  == {i \in 1..Len(text) : BackDateAt(text, i).ok}
        date_m == BackDateAt(text, MinOf(dates))
        times  == {i \in 1..Len(text) : BackTimeAt(text, i).ok}
        mo     == IntOf(date_m.mo)
        day    == IntOf(date_m.dy)
    IN  IF title = <<"None">> THEN detail
        ELSE IF Contains(text, Shougaku) /\ ~Contains(text, Nyuuyouji) /\ ~Contains(text, ZeroSai)
        THEN detail
        ELSE IF dates = {} THEN detail
        ELSE IF ~ValidDate(year, mo, day) THEN detail
        ELSE DetailPut(detail,
                       [title       |-> Strip(title),
                        date        |-> IsoJoin(IntStr(year), Pad2(mo), Pad2(day)),
                        time        |-> IF times = {} THEN NoTime
                                        ELSE BackTimeAt(text, MinOf(times)).time,
                        description |-> BackTargetOf(text),
                        month       |-> mo,
                        day         |-> day])

RECURSIVE BackRow(_, _, _, _)
BackRow(detail, row, k, year) ==
    IF k > Len(row) THEN detail
    ELSE BackRow(BackCell(detail, row[k], year), row, k + 1, year)

RECURSIVE BackRows(_, _, _, _)
BackRows(detail, back_table, k, year) ==
    IF k > Len(back_table) THEN detail
    ELSE BackRows(BackRow(detail, back_table[k], 1, year), back_table, k + 1, year)

_hanazono_parse_back(back_table, year) == BackRows(<<>>, back_table, 1, year)

\* a wrong addressing: the span of a weekday begins at its header cell
HanazonoWdColsAtLabel(header_row) ==
    LET pos == FoundFrom(header_row, 0)
        n   == IF Len(pos) < 7 THEN Len(pos) ELSE 7
    IN  [k \in 1..n |->
            [wd |-> WEEKDAYS[k],
             s  |-> pos[k],
             e  |-> IF k < Len(pos) THEN pos[k + 1] ELSE Len(header_row)]]

\* zip(WEEKDAYS, wd_data_starts): the data of a weekday begin one column
\* left of its header cell
_hanazono_build_wd_cols(header_row) ==
    LET pos == FoundFrom(header_row, 0)
        n   == IF Len(pos) < 7 THEN Len(pos) ELSE 7
    IN  [k \in 1..n |->
            [wd |-> WEEKDAYS[k],
             s  |-> pos[k] - 1,
             e  |-> IF k < Len(pos) THEN pos[k + 1] - 1 ELSE Len(header_row)]]

\* row[ci] of a Python list: a negative index counts from the end
PyCell(row, ci) == IF ci < 0 THEN row[Len(row) + ci + 1] ELSE row[ci + 1]

HzAddPart(parts, c) ==
    IF c # <<>> /\ Strip(c) # <<>> /\ _normalize(c) # <<>> /\ _normalize(c) \notin Range(parts)
    THEN Append(parts, _normalize(c)) ELSE parts

RECURSIVE HzRowParts(_, _, _, _)
HzRowParts(row, ci, stop, parts) ==
    IF ci >= stop THEN parts
    ELSE HzRowParts(row, ci + 1, stop, HzAddPart(parts, PyCell(row, ci)))

RECURSIVE HzBlockParts(_, _, _, _, _)
HzBlockParts(rows, k, s, e, parts) ==
    IF k > Len(rows) THEN parts
    ELSE HzBlockParts(rows, k + 1, s, e,
                      HzRowParts(rows[k], s, IF e < Len(rows[k]) THEN e ELSE Len(rows[k]), parts))

\* get_block(rows, s, e) of scrape_hanazono
get_block(rows, s, e) == Join(HzBlockParts(rows, 1, s, e, <<>>), <<"\n">>)

HzMarkers == {"FLP", "(", "LBR", "KOME"}

HzIsDescLine(l) == HasClock(_z2h(l)) \/ (l # <<>> /\ l[1] \in HzMarkers)

\* re.sub(r'\d{1,2}:\d{2}', '', s)
RECURSIVE RemoveClock(_, _)
RemoveClock(s, i) ==
    IF i > Len(s) THEN <<>>
    ELSE IF ColonTimeAt(s, i).ok THEN RemoveClock(s, i + D12Then(s, i, ":") + 3)
    ELSE <<s[i]>> \o RemoveClock(s, i + 1)

HzTitleOf(raw) ==
    LET lines == SelectSeq([k \in 1..Len(SplitLines(raw)) |-> Strip(SplitLines(raw)[k])],
                           LAMBDA l : l # <<>>)
        title == Strip(Join(SelectSeq(lines, LAMBDA l : ~HzIsDescLine(l)), <<" ">>))
    IN  IF title # <<>> THEN title
        ELSE Strip(CollapseSpace(RemoveClock(_z2h(RemoveParens(raw, 1)), 1), 1))

\* SKIP_TITLES = 天皇誕生日|建国記念|開館してます|祝日
SKIP_TITLES == { <<"u5929", "u7687", "u8A95", "u751F", "NICHI">>,
                 <<"u5EFA", "u56FD", "u8A18", "u5FF5">>,
                 <<"u958B", "u9928", "u3057", "u3066", "ma", "u3059">>,
                 <<"u795D", "NICHI">> }

\* back_detail.get((month, day_num)): the index of the entry, 0 for None
BackGet(back_detail, month, day_num) ==
    LET at == {k \in 1..Len(back_detail) :
                  back_detail[k].month = month /\ back_detail[k].day = day_num}
    IN  IF at = {} THEN 0 ELSE MinOf(at)

HzDefaultTime     == <<"1", "0", ":", "3", "0", "WAVE">>   \* "10:30〜"
HzBackDefaultTime == <<"1", "0", ":", "0", "0", "WAVE">>   \* "10:00〜"

HzEvent(title, date, time, description) ==
    [title |-> title, date |-> date, time |-> time, description |-> description,
     source |-> HANAZONO_SOURCE, url |-> HANAZONO_URL,
     category |-> _guess_category(title \o description)]

\* a wrong join: the detail of the back page is not looked up for a calendar day
HzCalendarEventNoBack(back_detail, b, raw, title, iso) ==
    HzEvent(title, iso,
            IF _extract_time(raw) = NoTime THEN HzDefaultTime ELSE _extract_time(raw),
            <<>>)

\* the event of a calendar day, completed from the back page (b = 0: no entry)
HzCalendarEvent(back_detail, b, raw, title, iso) ==
    HzEvent(IF b # 0 THEN back_detail[b].title ELSE title,
            iso,
            IF b # 0 /\ back_detail[b].time # NoTime THEN back_detail[b].time
            ELSE IF _extract_time(raw) = NoTime THEN HzDefaultTime ELSE _extract_time(raw),
            IF b # 0 THEN back_detail[b].description ELSE <<>>)

\* the body of "for day_ci, day_num in day_cells": the events to append (none
\* or one); an appended event puts (month, day_num) into seen_days
HzTitledEvents(year, month, back_detail, raw, title, day_num) ==
    IF _is_non_event(title) \/ (\E w \in SKIP_TITLES : Contains(title, w)) THEN <<>>
    ELSE IF ~ValidDate(year, month, day_num) THEN <<>>
    ELSE <<[day |-> day_num,
            ev  |-> HzCalendarEvent(back_detail, BackGet(back_detail, month, day_num), raw,
                                    title, IsoJoin(IntStr(year), Pad2(month), Pad2(day_num)))]>>

HzRawEvents(year, month, back_detail, raw, day_num) ==
    IF raw = <<>> \/ _is_non_event(raw) THEN <<>>
    ELSE HzTitledEvents(year, month, back_detail, raw, HzTitleOf(raw), day_num)

HzBlockEvents(year, month, back_detail, blk, content_rows, day_num) ==
    IF blk = NoBlock THEN <<>>
    ELSE HzRawEvents(year, month, back_detail, get_block(content_rows, blk.s, blk.e), day_num)

HzCellEvents(year, month, back_detail, wd_cols, content_rows, day_ci, day_num) ==
    HzBlockEvents(year, month, back_detail, get_weekday_block(wd_cols, day_ci),
                  content_rows, day_num)

RECURSIVE HzRowEvents(_, _, _, _, _, _, _)
HzRowEvents(year, month, back_detail, wd_cols, content_rows, day_cells, k) ==
    IF k > Len(day_cells) THEN <<>>
    ELSE HzCellEvents(year, month, back_detail, wd_cols, content_rows,
                      day_cells[k][1], day_cells[k][2])
         \o HzRowEvents(year, month, back_detail, wd_cols, content_rows, day_cells, k + 1)

\* day_row_indices: the 0-based indexes of the rows with 3 day cells or more
RECURSIVE HzDayRows(_, _)
HzDayRows(cal_table, ri) ==
    IF ri >= Len(cal_table) THEN <<>>
    ELSE (IF Len(DayCells(cal_table[ri + 1], 0)) >= 3 THEN <<ri>> ELSE <<>>)
         \o HzDayRows(cal_table, ri + 1)

\* the loop over day_row_indices: content_rows = cal_table[ri + 1:next_ri]
RECURSIVE HzFront(_, _, _, _, _, _, _)
HzFront(year, month, back_detail, wd_cols, cal_table, day_rows, idx) ==
    IF idx > Len(day_rows) THEN <<>>
    ELSE LET ri      == day_rows[idx]
             next_ri == IF idx < Len(day_rows) THEN day_rows[idx + 1] ELSE Len(cal_table)
         IN  HzRowEvents(year, month, back_detail, wd_cols,
                         SubSeq(cal_table, ri + 2, next_ri),
                         DayCells(cal_table[ri + 1], 0), 1)
             \o HzFront(year, month, back_detail, wd_cols, cal_table, day_rows, idx + 1)

\* "for (mo, day), d in back_detail.items()": the entries not in seen_days
RECURSIVE HzBackOnly(_, _, _, _)
HzBackOnly(back_detail, seen_days, month, k) ==
    IF k > Len(back_detail) THEN <<>>
    ELSE (IF back_detail[k].month = month /\ back_detail[k].day \in seen_days THEN <<>>
          ELSE <<HzEvent(back_detail[k].title, back_detail[k].date,
                         IF back_detail[k].time = NoTime THEN HzBackDefaultTime
                         ELSE back_detail[k].time,
                         back_detail[k].description)>>)
         \o HzBackOnly(back_detail, seen_days, month, k + 1)

\* front_events.sort(key=lambda x: x["date"]): stable, by the date string
RECURSIVE InsertByDate(_, _)
InsertByDate(sorted, e) ==
    IF sorted = <<>> THEN <<e>>
    ELSE IF StrLess(e.date, sorted[Len(sorted)].date)
    THEN Append(InsertByDate(SubSeq(sorted, 1, Len(sorted) - 1), e), sorted[Len(sorted)])
    ELSE Append(sorted, e)

RECURSIVE SortByDate(_)
SortByDate(events) ==
    IF events = <<>> THEN <<>>
    ELSE InsertByDate(SortByDate(SubSeq(events, 1, Len(events) - 1)), events[Len(events)])

\* the front page is read, then the back page: year, month, wd_cols,
\* day_row_indices, back_detail
HanazonoPages ==
    /\ pc = "hanazono"
    /\ LET ym == _get_year_month_from_metadata(arg.creation_date, arg.text,
                                               arg.now.year, arg.now.month)
       IN  loc' = [year |-> ym.y, month |-> ym.mo,
                   wd_cols |-> _hanazono_build_wd_cols(arg.cal_table[1]),
                   day_rows |-> HzDayRows(arg.cal_table, 0),
                   back_detail |-> _hanazono_parse_back(arg.back_table, ym.y),
                   front_events |-> <<>>, seen_days |-> {}]
    /\ pc' = "hanazono_calendar"
    /\ UNCHANGED <<arg, res, all_events, produced>>

\* front_events.append(...) and seen_days.add(...) for the events found
HzAppended(l, found) ==
    [l EXCEPT !.front_events = [k \in 1..Len(found) |-> found[k].ev],
              !.seen_days = {found[k].day : k \in 1..Len(found)}]

\* the calendar loop: front_events and seen_days (the days of the target month)
HanazonoCalendar ==
    /\ pc = "hanazono_calendar"
    /\ loc' = HzAppended(loc, HzFront(loc.year, loc.month, loc.back_detail, loc.wd_cols,
                                      arg.cal_table, loc.day_rows, 1))
    /\ pc' = "hanazono_back"
    /\ UNCHANGED <<arg, res, all_events, produced>>

\* the entries of the back page that no calendar day took, the sort, the return
HanazonoBackOnly ==
    /\ pc = "hanazono_back"
    /\ res' = <<SortByDate(loc.front_events
                           \o HzBackOnly(loc.back_detail, loc.seen_days, loc.month, 1))>>
    /\ pc' = "hanazono_done"
    /\ UNCHANGED <<arg, loc, all_events, produced>>

(***************************************************************************)
(* scrape_jonan: day and events share a cell; a cell is cut into           *)
(* sub-events (title lines closed by a time line), and a sub-event is      *)
(* kept by the keywords of its title                                       *)
(***************************************************************************)
JONAN_SOURCE == "JONAN"
JONAN_URL    == "JONAN_URL"

\* _JONAN_INFANT_RE: 身体測定|豆まき|はじめの一歩|朝の活動|マザーズヨガ|わ...
_JONAN_INFANT_RE ==
    {
      <<"u8EAB", "u4F53", "u6E2C", "u5B9A">>,
      <<"u8C46", "ma", "u304D">>,
      <<"u306F", "u3058", "u3081", "u306E", "u4E00", "u6B69">>,
      <<"u671D", "u306E", "u6D3B", "u52D5">>,
      <<"u30DE", "u30B6", "CHOON", "u30BA", "u30E8", "u30AC">>,
      <<"u308F", "u304F", "u308F", "u304F">>,
      <<"u3042", "ka", "u3061", "u3083", "u3093">>,
      <<"u304A", "u306F", "u306A", "u3057", "ka", "u3044">>,
      <<"u5B63", "u7BC0", "u306E", "u5236", "u4F5C">>,
      <<"u3072", "u306A", "ma", "u3064", "ri">>,
      <<"u30D4", "u30E9", "u30C6", "u30A3", "u30B9">>,
      <<"u30D9", "u30D3", "CHOON", "u30A2", "u30ED", "u30DE">>,
      <<"E", "n", "g", "l", "i", "s", "h">>,
      <<"u80B2", "u5150", "u8B1B", "u5EA7">>,
      <<"u3075", "u308C", "u3042", "u3044", "u30B5", "u30ED", "u30F3">>,
      <<"u9AA8", "u76E4", "u4F53", "u64CD">>,
      <<"u3053", "u3069", "u3082", "u767A", "u9054">>,
      <<"u3064", "u304F", "u3063", "u3066", "u3042", "u305D", "u307C">>,
      <<"u304A", "u3086", "u305A", "ri", "u30DE", "u30EB", "u30B7", "u30A7">> }

\* _JONAN_SKIP_RE: 書き方教室|Let\'s Dance|キッズ体...
_JONAN_SKIP_RE ==
    {
      <<"u66F8", "u304D", "u65B9", "u6559", "u5BA4">>,
      <<"L", "e", "t", "'", "s", " ", "D", "a", "n", "c", "e">>,
      <<"u30AD", "u30C3", "u30BA", "u4F53", "u64CD">>,
      <<"u30DC", "CHOON", "u30C9", "u30B2", "CHOON", "u30E0">>,
      <<"u30B9", "u30A4", "CHOON", "u30C4", "u30AF", "u30C3", "u30AD", "u30F3", "u30B0">>,
      <<"u304A", "u3082", "u3061", "u3083", "u75C5", "u9662">>,
      <<"u306F", "u308B", "ma", "u3064", "ri">>,
      <<"u30A4", "u30F3", "u30B9", "u30BF", "u30B0", "u30E9", "u30E0">>,
      <<"u4E73", "u5E7C", "u5150", "u304A", "u3059", "u3059", "u3081">>,
      <<"u5730", "u57DF", "u5B50", "u80B2", "u3066", "u30AF", "u30E9", "u30D6", "u30D4", "u30AB", "u30D4", "u30AB", "u30A4", "u30D9", "u30F3", "u30C8">> }

\* rx.search(title) for a pattern that is a list of literal alternatives
SearchAny(kws, title) == \E kw \in kws : Contains(title, kw)

JonanDefaultTime == <<"1", "1", ":", "0", "0", "WAVE">>   \* "11:00〜"

\* lines = [l.strip() for l in cell_z.splitlines() if l.strip()]
JonanLines(cell) ==
    SelectSeq([k \in 1..Len(SplitLines(_z2h(Strip(cell)))) |->
                  Strip(SplitLines(_z2h(Strip(cell)))[k])],
              LAMBDA l : l # <<>>)

\* a wrong split: a time line does not start a new title
RECURSIVE JonanSplitNoReset(_, _, _, _)
JonanSplitNoReset(content_lines, k, cur_title, sub_events) ==
    IF k > Len(content_lines)
    THEN (IF cur_title # <<>>
          THEN Append(sub_events, [title |-> Join(cur_title, <<" ">>), time |-> JonanDefaultTime])
          ELSE sub_events)
    ELSE IF BackTimeAt(content_lines[k], 1).ok
    THEN (IF cur_title # <<>>
          THEN JonanSplitNoReset(content_lines, k + 1, cur_title,
                          Append(sub_events, [title |-> Join(cur_title, <<" ">>),
                                              time  |-> BackTimeAt(content_lines[k], 1).time]))
          ELSE JonanSplitNoReset(content_lines, k + 1, cur_title, sub_events))
    ELSE JonanSplitNoReset(content_lines, k + 1, Append(cur_title, content_lines[k]), sub_events)

\* "for l in content_lines": a time line closes the title gathered so far;
\* the lines left at the end make a sub-event at the default time
RECURSIVE JonanSplit(_, _, _, _)
JonanSplit(content_lines, k, cur_title, sub_events) ==
    IF k > Len(content_lines)
    THEN (IF cur_title # <<>>
          THEN Append(sub_events, [title |-> Join(cur_title, <<" ">>), time |-> JonanDefaultTime])
          ELSE sub_events)
    ELSE IF BackTimeAt(content_lines[k], 1).ok
    THEN (IF cur_title # <<>>
          THEN JonanSplit(content_lines, k + 1, <<>>,
                          Append(sub_events, [title |-> Join(cur_title, <<" ">>),
                                              time  |-> BackTimeAt(content_lines[k], 1).time]))
          ELSE JonanSplit(content_lines, k + 1, cur_title, sub_events))
    ELSE JonanSplit(content_lines, k + 1, Append(cur_title, content_lines[k]), sub_events)

WithDay(day_num, sub_events) ==
    [k \in 1..Len(sub_events) |->
        [day |-> day_num, title |-> sub_events[k].title, time |-> sub_events[k].time]]

\* the sub-events of one cell: none unless the first line is a day number
\* and lines follow
JonanCellOf(lines) ==
    IF lines = <<>> THEN <<>>
    ELSE IF ~(\A j \in 1..Len(lines[1]) : IsDigit(lines[1][j])) THEN <<>>
    ELSE WithDay(IntOf(lines[1]), JonanSplit(Tail(lines), 1, <<>>, <<>>))

JonanCell(cell) ==
    IF cell = <<>> \/ Strip(cell) = <<>> THEN <<>> ELSE JonanCellOf(JonanLines(cell))

RECURSIVE JonanRow(_, _)
JonanRow(row, k) ==
    IF k > Len(row) THEN <<>> ELSE JonanCell(row[k]) \o JonanRow(row, k + 1)

\* rows 0 and 1 and the last row are skipped
RECURSIVE JonanRows(_, _)
JonanRows(cal, ri) ==
    IF ri >= Len(cal) THEN <<>>
    ELSE (IF ri <= 1 \/ ri = Len(cal) - 1 THEN <<>> ELSE JonanRow(cal[ri + 1], 1))
         \o JonanRows(cal, ri + 1)

\* a wrong filter: the deny list is not consulted
JonanKeptAllowOnly(title) == SearchAny(_JONAN_INFANT_RE, title)

\* if _JONAN_SKIP_RE.search(title): continue
\* if not _JONAN_INFANT_RE.search(title): continue
JonanKept(title) ==
    IF SearchAny(_JONAN_SKIP_RE, title) THEN FALSE
    ELSE SearchAny(_JONAN_INFANT_RE, title)

JonanEvent(year, month, c) ==
    [title |-> c.title, date |-> IsoJoin(IntStr(year), Pad2(month), Pad2(c.day)),
     time |-> c.time, description |-> <<>>, source |-> JONAN_SOURCE, url |-> JONAN_URL,
     category |-> _guess_category(c.title)]

RECURSIVE JonanEvents(_, _, _, _)
JonanEvents(year, month, candidates, k) ==
    IF k > Len(candidates) THEN <<>>
    ELSE (IF JonanKept(candidates[k].title) /\ ValidDate(year, month, candidates[k].day)
          THEN <<JonanEvent(year, month, candidates[k])>> ELSE <<>>)
         \o JonanEvents(year, month, candidates, k + 1)

\* year and month, then the cells of the calendar cut into sub-events
JonanSubEvents ==
    /\ pc = "jonan"
    /\ LET found == _get_year_month_from_pdf_text(arg.text, 0, 0)
           ym    == IF found.y = 0
                    THEN _get_year_month_from_metadata(arg.creation_date, arg.text,
                                                       arg.now.year, arg.now.month)
                    ELSE found
       IN  loc' = [year |-> ym.y, month |-> ym.mo, candidates |-> JonanRows(arg.cal, 0)]
    /\ pc' = "jonan_filter"
    /\ UNCHANGED <<arg, res, all_events, produced>>

\* the sub-events that pass the keywords and have a date, sorted by date
JonanFilter ==
    /\ pc = "jonan_filter"
    /\ res' = <<SortByDate(JonanEvents(loc.year, loc.month, loc.candidates, 1))>>
    /\ pc' = "jonan_done"
    /\ UNCHANGED <<arg, loc, all_events, produced>>

(***************************************************************************)
(* CATEGORY_MAP, AGE_MAP, guess_category, guess_age: keyword tables read   *)
(* in insertion order; a row is <<keyword, tag>>                            *)
(***************************************************************************)
\* the rows of CATEGORY_MAP in the order written
CATEGORY_MAP ==
    <<
       <<<<"u96E2", "u4E73", "u98DF">>,
         <<"u98DF", "u80B2", "u30FB", "u6804", "u990A">>>>,
       <<<<"u98DF", "u80B2">>,
         <<"u98DF", "u80B2", "u30FB", "u6804", "u990A">>>>,
       <<<<"u6804", "u990A">>,
         <<"u98DF", "u80B2", "u30FB", "u6804", "u990A">>>>,
       <<<<"u5065", "u5EB7">>,
         <<"u5065", "u5EB7", "u30FB", "u533B", "u7642">>>>,
       <<<<"u6B6F">>,
         <<"u5065", "u5EB7", "u30FB", "u533B", "u7642">>>>,
       <<<<"u533B", "u7642">>,
         <<"u5065", "u5EB7", "u30FB", "u533B", "u7642">>>>,
       <<<<"u767A", "u9054">>,
         <<"u767A", "u9054", "u30FB", "u80B2", "u5150", "u76F8", "u8AC7">>>>,
       <<<<"u76F8", "u8AC7">>,
         <<"u767A", "u9054", "u30FB", "u80B2", "u5150", "u76F8", "u8AC7">>>>,
       <<<<"u80B2", "u5150">>,
         <<"u767A", "u9054", "u30FB", "u80B2", "u5150", "u76F8", "u8AC7">>>>,
       <<<<"u30D1", "u30D1">>,
         <<"u7236", "u89AA", "u30FB", "u5BB6", "u65CF", "u652F", "u63F4">>>>,
       <<<<"u3075", "u308C", "u3042", "u3044">>,
         <<"u89AA", "u5B50", "u3075", "u308C", "u3042", "u3044">>>>,
       <<<<"u904A", "u3073">>,
         <<"u89AA", "u5B50", "u3075", "u308C", "u3042", "u3044">>>>,
       <<<<"u30EA", "u30C8", "u30DF", "u30C3", "u30AF">>,
         <<"u89AA", "u5B50", "u3075", "u308C", "u3042", "u3044">>>>,
       <<<<"u30DE", "u30C3", "u30B5", "CHOON", "u30B8">>,
         <<"u89AA", "u5B50", "u3075", "u308C", "u3042", "u3044">>>>,
       <<<<"u7D75", "u672C">>,
         <<"u89AA", "u5B50", "u3075", "u308C", "u3042", "u3044">>>>,
       <<<<"u4F53", "u64CD">>,
         <<"u89AA", "u5B50", "u3075", "u308C", "u3042", "u3044">>>>,
       <<<<"u304A", "u306F", "u306A", "u3057">>,
         <<"u89AA", "u5B50", "u3075", "u308C", "u3042", "u3044">>>>,
       <<<<"u30CF", "u30A4", "u30CF", "u30A4">>,
         <<"u89AA", "u5B50", "u3075", "u308C", "u3042", "u3044">>>>,
       <<<<"u30D9", "u30D3", "CHOON", "u30B5", "u30A4", "u30F3">>,
         <<"u89AA", "u5B50", "u3075", "u308C", "u3042", "u3044">>>>,
       <<<<"u3072", "u3068", "ri", "u89AA">>,
         <<"u3072", "u3068", "ri", "u89AA", "u652F", "u63F4">>>>,
       <<<<"u7523", "ZEN">>,
         <<"u7523", "ZEN", "u30FB", "u7523", "KOU">>>>,
       <<<<"u7523", "KOU">>,
         <<"u7523", "ZEN", "u30FB", "u7523", "KOU">>>>,
       <<<<"u9AA8", "u76E4">>,
         <<"u7523", "ZEN", "u30FB", "u7523", "KOU">>>>,
       <<<<"u30E8", "u30AC">>,
         <<"u7523", "ZEN", "u30FB", "u7523", "KOU">>>>,
       <<<<"u30D4", "u30E9", "u30C6", "u30A3", "u30B9">>,
         <<"u7523", "ZEN", "u30FB", "u7523", "KOU">>>>,
       <<<<"u30DE", "u30BF", "u30CB", "u30C6", "u30A3">>,
         <<"u7523", "ZEN", "u30FB", "u7523", "KOU">>>>,
       <<<<"u304A", "KIN">>,
         <<"u751F", "u6D3B", "u652F", "u63F4">>>>,
       <<<<"u30E1", "u30A4", "u30AF">>,
         <<"u751F", "u6D3B", "u652F", "u63F4">>>>,
       <<<<"u30AB", "u30E9", "CHOON">>,
         <<"u751F", "u6D3B", "u652F", "u63F4">>>>
    >>

\* the rows of AGE_MAP in the order written
AGE_MAP ==
    <<
       <<<<"u598A", "u5A66">>,
         <<"u598A", "u5A20", "u4E2D">>>>,
       <<<<"u598A", "u5A20", "u4E2D">>,
         <<"u598A", "u5A20", "u4E2D">>>>,
       <<<<"u7523", "KOU">>,
         <<"0", "u6B73">>>>,
       <<<<"u30D9", "u30D3", "CHOON">>,
         <<"0", "u6B73">>>>,
       <<<<"0", "u6B73">>,
         <<"0", "u6B73">>>>,
       <<<<"u4E73", "u5150">>,
         <<"0", "u6B73">>>>,
       <<<<"u8D64", "u3061", "u3083", "u3093">>,
         <<"0", "u6B73">>>>,
       <<<<"u30CF", "CHOON", "u30D5", "u30D0", "CHOON", "u30B9", "u30C7", "CHOON">>,
         <<"0", "u6B73">>>>,
       <<<<"u30CF", "u30A4", "u30CF", "u30A4">>,
         <<"0", "u6B73">>>>,
       <<<<"1", "u6B73">>,
         <<"1", "WAVE", "2", "u6B73">>>>,
       <<<<"2", "u6B73">>,
         <<"1", "WAVE", "2", "u6B73">>>>,
       <<<<"F1", "u6B73">>,
         <<"1", "WAVE", "2", "u6B73">>>>,
       <<<<"F2", "u6B73">>,
         <<"1", "WAVE", "2", "u6B73">>>>,
       <<<<"3", "u6B73">>,
         <<"3", "WAVE", "5", "u6B73">>>>,
       <<<<"4", "u6B73">>,
         <<"3", "WAVE", "5", "u6B73">>>>,
       <<<<"5", "u6B73">>,
         <<"3", "WAVE", "5", "u6B73">>>>,
       <<<<"u672A", "u5C31", "u5B66">>,
         <<"3", "WAVE", "5", "u6B73">>>>,
       <<<<"u5E7C", "u5150">>,
         <<"3", "WAVE", "5", "u6B73">>>>,
       <<<<"u5C0F", "u5B66">>,
         <<"u5C0F", "u5B66", "u751F", "u4EE5", "u4E0A">>>>,
       <<<<"u4E73", "u5E7C", "u5150">>,
         <<"0", "u6B73", "WAVE", "u672A", "u5C31", "u5B66">>>>
    >>

CategoryDefault == <<"u305D", "u306E", "u4ED6">>
AgeDefault      == <<"u6307", "u5B9A", "u306A", "u3057">>

\* "for k, v in table.items(): if k in t: return v", then the default
RECURSIVE FirstTag(_, _, _, _)
FirstTag(table, t, k, default) ==
    IF k > Len(table) THEN default
    ELSE IF Contains(t, table[k][1]) THEN table[k][2]
    ELSE FirstTag(table, t, k + 1, default)

\* a wrong reading of the table: the last keyword found decides
RECURSIVE LastTag(_, _, _, _)
LastTag(table, t, k, default) ==
    IF k < 1 THEN default
    ELSE IF Contains(t, table[k][1]) THEN table[k][2]
    ELSE LastTag(table, t, k - 1, default)

GuessCategoryLastWins(t) == LastTag(CATEGORY_MAP, t, Len(CATEGORY_MAP), CategoryDefault)

guess_category(t) == FirstTag(CATEGORY_MAP, t, 1, CategoryDefault)

guess_age(t) == FirstTag(AGE_MAP, t, 1, AgeDefault)

\* one call of each classifier on the text
GuessOnce ==
    /\ pc = "guess"
    /\ res' = <<guess_category(arg.text), guess_age(arg.text)>>
    /\ pc' = "guess_again"
    /\ UNCHANGED <<arg, loc, all_events, produced>>

\* a second call of each on the same text
GuessAgain ==
    /\ pc = "guess_again"
    /\ res' = res \o <<guess_category(arg.text), guess_age(arg.text)>>
    /\ pc' = "guess_done"
    /\ UNCHANGED <<arg, loc, all_events, produced>>

(***************************************************************************)
(* scrape_akitsu, lines 923-936: the weekday blocks are built as in        *)
(* hanazono, with the names of WEEKDAYS_STR (Sunday first)                 *)
(***************************************************************************)
WEEKDAYS_STR == <<WEEKDAYS[7]>> \o SubSeq(WEEKDAYS, 1, 6)

AkitsuWdCols(header_row) ==
    LET pos == FoundFrom(header_row, 0)
        n   == IF Len(pos) < 7 THEN Len(pos) ELSE 7
    IN  [k \in 1..n |->
            [wd |-> WEEKDAYS_STR[k],
             s  |-> pos[k] - 1,
             e  |-> IF k < Len(pos) THEN pos[k + 1] - 1 ELSE Len(header_row)]]

\* wd_cols of the adapter from the header row
LabelBuild ==
    /\ pc = "label"
    /\ loc' = [wd_cols |-> IF arg.hall = "hanazono"
                           THEN _hanazono_build_wd_cols(arg.header_row)
                           ELSE AkitsuWdCols(arg.header_row)]
    /\ pc' = "label_built"
    /\ UNCHANGED <<arg, res, all_events, produced>>

\* get_wd_block(col) / get_wd(col) for every column of the grid
LabelAssign ==
    /\ pc = "label_built"
    /\ res' = [c \in 1..Len(arg.header_row) |-> get_weekday_block(loc.wd_cols, c - 1)]
    /\ pc' = "label_done"
    /\ UNCHANGED <<arg, loc, all_events, produced>>

(***************************************************************************)
(* update_html, lines 2140-2159: docs/index.html is loc.file (None when    *)
(* the file does not exist); events_data is [updated_at, count, events],   *)
(* an event being [title, needs_reservation].  A double quote is the token *)
(* DQUOTE, a backslash the token BSLASH.                                   *)
(***************************************************************************)
start_marker == <<"/", "*", " ", "E", "V", "E", "N", "T", "S", "_", "D", "A", "T", "A", "_", "S", "T", "A", "R", "T", " ", "*", "/">>
end_marker   == <<"/", "*", " ", "E", "V", "E", "N", "T", "S", "_", "D", "A", "T", "A", "_", "E", "N", "D", " ", "*", "/">>

NoFile == <<"None">>

\* the escapes of json.dumps(..., ensure_ascii=False) inside a string
JsonChar(c) ==
    IF c = "DQUOTE" THEN <<"BSLASH", "DQUOTE">>
    ELSE IF c = "BSLASH" THEN <<"BSLASH", "BSLASH">>
    ELSE IF c = "\n" THEN <<"BSLASH", "n">>
    ELSE IF c = "\t" THEN <<"BSLASH", "t">>
    ELSE <<c>>

RECURSIVE JsonEscape(_)
JsonEscape(s) == IF s = <<>> THEN <<>> ELSE JsonChar(Head(s)) \o JsonEscape(Tail(s))

JsonStr(s) == <<"DQUOTE">> \o JsonEscape(s) \o <<"DQUOTE">>

JsonBool(b) == IF b THEN <<"t", "r", "u", "e">> ELSE <<"f", "a", "l", "s", "e">>

JsonEvent(ev) ==
    <<"{", "DQUOTE", "t", "i", "t", "l", "e", "DQUOTE", ":", " ">> \o JsonStr(ev.title)
      \o <<",", " ", "DQUOTE", "n", "e", "e", "d", "s", "_", "r", "e", "s", "e", "r", "v", "a", "t", "i", "o", "n", "DQUOTE", ":", " ">> \o JsonBool(ev.needs_reservation) \o <<"}">>

JsonEvents(events) ==
    <<"[">> \o Join([k \in 1..Len(events) |-> JsonEvent(events[k])], <<",", " ">>) \o <<"]">>

\* json.dumps(events_data, ensure_ascii=False)
json_dumps(events_data) ==
    <<"{", "DQUOTE", "u", "p", "d", "a", "t", "e", "d", "_", "a", "t", "DQUOTE", ":", " ">> \o JsonStr(events_data.updated_at)
      \o <<",", " ", "DQUOTE", "c", "o", "u", "n", "t", "DQUOTE", ":", " ">> \o IntStr(events_data.count)
      \o <<",", " ", "DQUOTE", "e", "v", "e", "n", "t", "s", "DQUOTE", ":", " ">> \o JsonEvents(events_data.events) \o <<"}">>

\* a wrong block: the text after the end marker is cut from the end of the
\* marker's first character
UpdatedKeepEndMarker(html, events_data) ==
    LET s == FindFrom(html, start_marker, 1)
        e == FindFrom(html, end_marker, 1)
    IN  IF s = 0 \/ e = 0 THEN html
        ELSE SubSeq(html, 1, s - 1)
             \o start_marker \o <<"\n">> \o <<"c", "o", "n", "s", "t", " ", "I", "N", "L", "I", "N", "E", "_", "E", "V", "E", "N", "T", "S", " ", "=", " ">> \o json_dumps(events_data)
             \o <<";", "\n">> \o end_marker
             \o SubSeq(html, e, Len(html))

\* the text written back, or html itself when a marker is missing
\* (html.find gives -1; FindFrom gives 0 and counts from 1)
Updated(html, events_data) ==
    LET s == FindFrom(html, start_marker, 1)
        e == FindFrom(html, end_marker, 1)
    IN  IF s = 0 \/ e = 0 THEN html
        ELSE SubSeq(html, 1, s - 1)
             \o start_marker \o <<"\n">> \o <<"c", "o", "n", "s", "t", " ", "I", "N", "L", "I", "N", "E", "_", "E", "V", "E", "N", "T", "S", " ", "=", " ">> \o json_dumps(events_data)
             \o <<";", "\n">> \o end_marker
             \o SubSeq(html, e + Len(end_marker), Len(html))

\* one call of update_html with the events_data of this run
\* (loc.prev is the file before the call)
UpdateHtml ==
    /\ pc = "update"
    /\ loc.calls < Len(arg.runs)
    /\ \E html \in {loc.file} :
         loc' = [calls |-> loc.calls + 1, prev |-> html,
                 file  |-> IF html = NoFile THEN NoFile
                           ELSE Updated(html, arg.runs[loc.calls + 1])]
    /\ UNCHANGED <<pc, arg, res, all_events, produced>>

\* the runs are over
UpdateEnd ==
    /\ pc = "update"
    /\ loc.calls >= Len(arg.runs)
    /\ pc' = "update_done"
    /\ UNCHANGED <<arg, loc, res, all_events, produced>>

(***************************************************************************)
(* scrape_akitsu.get_cell_lines, lines 938-953, and the content of the     *)
(* block of a day cell in scrape_hanazono (617-621) and scrape_akitsu      *)
(* (1002-1006)                                                             *)
(***************************************************************************)
\* for l in c.splitlines(): l = l.strip(); if l and l not in lines: append
RECURSIVE AkAddLines(_, _, _)
AkAddLines(lines, ls, k) ==
    IF k > Len(ls) THEN lines
    ELSE AkAddLines(IF Strip(ls[k]) # <<>> /\ Strip(ls[k]) \notin Range(lines)
                    THEN Append(lines, Strip(ls[k])) ELSE lines,
                    ls, k + 1)

\* the cell row[ci] when it is not None, empty or blank
AkAddCell(lines, c) ==
    IF c = <<>> \/ Strip(c) = <<>> THEN lines ELSE AkAddLines(lines, SplitLines(c), 1)

RECURSIVE AkRowLines(_, _, _, _)
AkRowLines(row, ci, stop, lines) ==
    IF ci >= stop THEN lines
    ELSE AkRowLines(row, ci + 1, stop, AkAddCell(lines, PyCell(row, ci)))

RECURSIVE AkBlockLines(_, _, _, _, _)
AkBlockLines(rows, k, s, e, lines) ==
    IF k > Len(rows) THEN lines
    ELSE AkBlockLines(rows, k + 1, s, e,
                      AkRowLines(rows[k], s, IF e < Len(rows[k]) THEN e ELSE Len(rows[k]), lines))

\* get_cell_lines(rows, s, e) of scrape_akitsu
get_cell_lines(rows, s, e) == AkBlockLines(rows, 1, s, e, <<>>)

\* the content read for the day cell in column arg.day_ci: raw of
\* scrape_hanazono, raw_lines of scrape_akitsu; "continue" when the column
\* is in no block
ContentCollect ==
    /\ pc = "label_built"
    /\ \E blk \in {get_weekday_block(loc.wd_cols, arg.day_ci)} :
         /\ loc' = [wd_cols |-> loc.wd_cols, blk |-> blk]
         /\ res' = IF blk = NoBlock THEN <<>>
                   ELSE IF arg.hall = "hanazono"
                        THEN <<get_block(arg.content_rows, blk.s, blk.e)>>
                        ELSE <<get_cell_lines(arg.content_rows, blk.s, blk.e)>>
    /\ pc' = "content_done"
    /\ UNCHANGED <<arg, all_events, produced>>

(***************************************************************************)
(* scrape_ooe, lines 1232-1339: the issue year and month from the text of  *)
(* the page, then the loop over the lines of the left and of the right     *)
(* column (col_lines, as make_col_lines returns them).  Of an event the    *)
(* model keeps title, date, source and url; its time (parse_time) is read  *)
(* from the snippet alone.                                                 *)
(***************************************************************************)
OOE_SOURCE == "OOE"
OOE_URL    == "OOE_URL"

\* (20\d{2})年 at i
OoeYearAt(t, i) ==
    /\ i + 4 <= Len(t)
    /\ t[i] = "2" /\ t[i + 1] = "0" /\ IsDigit(t[i + 2]) /\ IsDigit(t[i + 3])
    /\ t[i + 4] = "NEN"

\* .*?(\d{1,2})月 after the year at i: the positions j the month can begin at
OoeMonthStarts(t, i) ==
    {j \in (i + 5)..Len(t) :
        /\ D12Then(t, j, "GATSU") > 0
        /\ \A k \in (i + 5)..(j - 1) : t[k] # "\n"}

\* m_yr = re.search(r'(20\d{2})年.*?(\d{1,2})月', t_all), else the metadata
OoeYearMonth(text, creation_date, now) ==
    LET t_all == _z2h(text)
        hits  == {i \in 1..Len(t_all) : OoeYearAt(t_all, i) /\ OoeMonthStarts(t_all, i) # {}}
        i     == MinOf(hits)
        j     == MinOf(OoeMonthStarts(t_all, i))
    IN  IF hits # {}
        THEN [y |-> ToInt(t_all, i, 4), mo |-> ToInt(t_all, j, D12Then(t_all, j, "GATSU"))]
        ELSE _get_year_month_from_metadata(creation_date, text, now.year, now.month)

\* DATE_MARKER = ^日\s*時\s*(\d+)月\s*(\d+)日, matched on the stripped line
DateMarker(line0) ==
    LET line == Strip(line0)
        j    == SkipSpace(line, 2)
        k    == SkipSpace(line, j + 1)
    IN  IF line # <<>> /\ line[1] = "NICHI" /\ j <= Len(line) /\ line[j] = "JI"
        THEN BackDateAt(line, k)
        ELSE [ok |-> FALSE, mo |-> <<>>, dy |-> <<>>]

OoeAdultWords  == {<<"u3069", "u306A", "u305F", "de", "u3082">>, <<"A", "n", "d", "r", "o", "i", "d">>, <<"u30B9", "u30DE", "u30DB">>, <<"6", "0", "0", "u5186">>}
OoeInfantWords == {<<"u4E73", "u5E7C", "u5150">>, <<"0", "u6B73">>, <<"1", "u6B73">>, <<"2", "u6B73">>, <<"u8D64", "u3061", "u3083", "u3093">>}

\* the title guessed from the snippet
OoeTitle(snippet, mo, day) ==
    IF SearchAny({<<"u718A", "NICHI", "u7AE5", "u8A71">>, <<"u5927", "u30DB", "CHOON", "u30EB">>, <<"2", "0", "u7D44">>}, snippet)
    THEN <<"u306F", "u3063", "u3074", "u3043", "u305F", "u3044", "u3080", " ", "u3072", "u306A", "ma", "u3064", "ri", "u304A", "u306F", "u306A", "u3057", "u4F1A">>
    ELSE IF Contains(snippet, <<"7", "u7D44", "FLP", "u5148", "u7740", "u9806", "FRP">>) THEN <<"u308F", "ra", "u3079", "u5504", "u3068", "u304A", "u306F", "u306A", "u3057", "u4F1A">>
    ELSE IF SearchAny({<<"ma", "u3069">>, <<"0", "u6B73", "u5150">>, <<"u5404", "9", "u7D44">>}, snippet) THEN <<"yo", "u3061", "yo", "u3061", "STAR", "u305F", "u3044", "u3080">>
    ELSE <<"u5927", "u6C5F", "u5150", "u7AE5", "u5BA4", " ", "u6D3B", "u52D5", "FLP">> \o IntStr(mo) \o <<"GATSU">> \o IntStr(day) \o <<"NICHI", "FRP">>

\* one line of a column: st is [events, seen_dates]
OoeLine(st, col_lines, i, year, month) ==
    LET dm      == DateMarker(col_lines[i])
        mo      == IntOf(dm.mo)
        day     == IntOf(dm.dy)
        last    == IF i + 9 < Len(col_lines) THEN i + 9 ELSE Len(col_lines)
        snippet == Join(SubSeq(col_lines, i, last), <<"\n">>)
    IN  IF ~dm.ok THEN st
        ELSE IF mo \notin {month, (month % 12) + 1} \/ <<mo, day>> \in st.seen_dates THEN st
        ELSE IF SearchAny(OoeAdultWords, snippet) THEN st
        ELSE IF ~SearchAny(OoeInfantWords, snippet) THEN st
        ELSE IF ~ValidDate(year, mo, day) THEN st
        ELSE [events     |-> Append(st.events,
                                    [title  |-> OoeTitle(snippet, mo, day),
                                     date   |-> IsoJoin(IntStr(year), Pad2(mo), Pad2(day)),
                                     source |-> OOE_SOURCE, url |-> OOE_URL]),
              seen_dates |-> st.seen_dates \cup {<<mo, day>>}]

RECURSIVE OoeColumn(_, _, _, _, _)
OoeColumn(st, col_lines, i, year, month) ==
    IF i > Len(col_lines) THEN st
    ELSE OoeColumn(OoeLine(st, col_lines, i, year, month), col_lines, i + 1, year, month)

\* the page is read: year and month of the issue
OoePage ==
    /\ pc = "ooe"
    /\ \E ym \in {OoeYearMonth(arg.text, arg.creation_date, arg.now)} :
         loc' = [year |-> ym.y, month |-> ym.mo]
    /\ pc' = "ooe_lines"
    /\ UNCHANGED <<arg, res, all_events, produced>>

\* the loop over the two columns, the sort by date, the return
OoeColumns ==
    /\ pc = "ooe_lines"
    /\ \E left \in {OoeColumn([events |-> <<>>, seen_dates |-> {}], arg.left, 1,
                              loc.year, loc.month)} :
         res' = <<SortByDate(OoeColumn(left, arg.right, 1, loc.year, loc.month).events)>>
    /\ pc' = "ooe_done"
    /\ UNCHANGED <<arg, loc, all_events, produced>>

(***************************************************************************)
(* Bounds                                                                  *)
(***************************************************************************)
MaxPieces == 3
MaxHour == 13
MaxEraYear == 7
LastStart == 26
MaxUploaded == 3
MaxYmPieces == 3

MaxTables == 3

MaxBackCells == 2

MaxJonanLines == 3

MaxTagPieces == 3

MaxHeaderRows == 3

MaxWalkRows == 4

MaxLabelWidth == 7

MaxListPages == 3
MaxLongList == 12

MaxUpdates == 2

MaxHtmlPieces == 4

MaxContentWidth == 5
MaxContentRows == 2

MaxOoeLines == 3


\* all concatenations of at most n pieces
RECURSIVE Concats(_, _)
Concats(pieces, n) ==
    IF n = 0 THEN {<<>>}
    ELSE LET shorter == Concats(pieces, n - 1)
         IN  shorter \cup {p \o t : p \in pieces, t \in shorter}

(***************************************************************************)
(* SpecNormalize: _normalize applied to a text, and again to its result    *)
(***************************************************************************)
NormalizePieces ==
    { <<"(", "c", "i", "d", ":", "1", ")">>,
      <<"(", "c", "i", "d">>,
      <<":", "2", ")">>,
      <<"(", "c", "i", "d", "FCOLON", "3", ")">>,
      <<" ">>, <<"IDSP">>, <<"\n">>, <<"a">>, <<"F1">>, <<"FCOLON">> }

InitNormalize ==
    /\ pc = "normalize"
    /\ arg \in Concats(NormalizePieces, MaxPieces)
    /\ loc = <<>>
    /\ res = <<>>
    /\ all_events = <<>>
    /\ produced = <<>>

\* one call of _normalize: on the text first, then on what it returned
NormalizeCall ==
    /\ pc = "normalize"
    /\ Len(res) < 2
    /\ res' = Append(res, _normalize(IF res = <<>> THEN arg ELSE res[Len(res)]))
    /\ UNCHANGED <<pc, arg, loc, all_events, produced>>

NextNormalize == NormalizeCall

SpecNormalize == InitNormalize /\ [][NextNormalize]_vars

\* C5: _normalize(_normalize(x)) = _normalize(x) for every text x
C5_Idempotent ==
    (pc = "normalize" /\ Len(res) = 2) => res[2] = res[1]

(***************************************************************************)
(* SpecTime: normalize_time applied to one time text                       *)
(***************************************************************************)
Hours   == 0..MaxHour
Minutes == {NoMinute, 5, 30}
AmPms   == {<<>>, Gozen, Gogo}

KanjiTime(ampm, h, m) ==
    ampm \o IntStr(h) \o <<"JI">>
         \o (IF m = NoMinute THEN <<>> ELSE IntStr(m) \o <<"FUN">>)

T1000 == <<"1", "0", ":", "0", "0">>
T1030 == <<"1", "0", ":", "3", "0">>
T1100 == <<"1", "1", ":", "0", "0">>
T1200 == <<"1", "2", ":", "0", "0">>

SingleTimes ==
    {KanjiTime(a, h, m) : a \in AmPms, h \in Hours, m \in Minutes}
    \cup { Shougo, T1030, <<"9", ":", "0", "5">>, <<" ">> \o T1030 \o <<"IDSP">>,
           <<"1", "0", "FCOLON", "3", "0">>, <<"x">>, <<>> }

ColonSides == {T1000, T1100}
RangeSides ==
    ColonSides \cup {KanjiTime(Gogo, 3, NoMinute), KanjiTime(<<>>, 5, 30), Shougo, <<"x">>}
RangeMarks == {<<"WAVE">>, <<"FTILDE">>, <<"CHOON">>, <<"-">>, Kara, Yori}
RangeTails == {<<>>, Made, Made \o <<" ">> \o T1200}

TimeInputs ==
    SingleTimes
    \cup {a \o mark \o b \o tail :
            a \in RangeSides, mark \in RangeMarks, b \in RangeSides, tail \in RangeTails}

InitTime ==
    /\ pc = "normalize_time"
    /\ arg \in TimeInputs
    /\ loc = <<>>
    /\ res = <<>>
    /\ all_events = <<>>
    /\ produced = <<>>

NormalizeTimeCall ==
    /\ pc = "normalize_time"
    /\ res = <<>>
    /\ res' = <<normalize_time(arg)>>
    /\ UNCHANGED <<pc, arg, loc, all_events, produced>>

NextTime == NormalizeTimeCall

SpecTime == InitTime /\ [][NextTime]_vars

IsHHMM(s) ==
    /\ Len(s) = 5
    /\ s[3] = ":"
    /\ \A i \in {1, 2, 4, 5} : s[i] \in Range(AsciiDigits)

\* C7: normalize_time returns "HH:MM<wave>HH:MM", "HH:MM<wave>" or "" only; a
\* start without an end ("10:30") gives "HH:MM<wave>"
C7_ThreeShapes ==
    (pc = "normalize_time" /\ res # <<>>) =>
        LET r == res[1]
        IN  \/ r = <<>>
            \/ Len(r) = 6 /\ IsHHMM(SubSeq(r, 1, 5)) /\ r[6] = "WAVE"
            \/ Len(r) = 11 /\ IsHHMM(SubSeq(r, 1, 5)) /\ r[6] = "WAVE"
                           /\ IsHHMM(SubSeq(r, 7, 11))

\* C8: p.m. hour h gives h + 12 except 12, which stays 12; a.m. 12 gives 0 and
\* any other a.m. hour itself; the noon literal gives 12:00
C8_AmPm ==
    (pc = "normalize_time" /\ res # <<>>) =>
        /\ \A h \in Hours, m \in Minutes :
             LET mm == IF m = NoMinute THEN 0 ELSE m
             IN  /\ arg = KanjiTime(Gogo, h, m) =>
                      res[1] = Pad2(IF h = 12 THEN 12 ELSE h + 12) \o <<":">> \o Pad2(mm)
                 /\ arg = KanjiTime(Gozen, h, m) =>
                      res[1] = Pad2(IF h = 12 THEN 0 ELSE h) \o <<":">> \o Pad2(mm)
        /\ arg = Shougo => res[1] = T1200

C8_Witness ==
    /\ pc = "normalize_time"
    /\ arg = KanjiTime(Gogo, 12, NoMinute)
    /\ res = <<T1200>>

\* C9: whatever the range mark (wave dash, hyphen, long-vowel mark, kara,
\* yori), and with or without a "made" tail, "10:00<mark>11:00" gives
\* "10:00<wave>11:00"
C9_DashLikeSplit ==
    (pc = "normalize_time" /\ res # <<>>) =>
        \A a \in ColonSides, b \in ColonSides, mark \in RangeMarks, tail \in RangeTails :
            arg = a \o mark \o b \o tail => res[1] = a \o <<"WAVE">> \o b

(***************************************************************************)
(* SpecDate: normalize_date applied to one date text                       *)
(***************************************************************************)
\* a date text, with or without white space between its parts
DateText(era, y, mo, dy, sp) ==
    LET gap == IF sp THEN <<" ">> ELSE <<>>
    IN  (IF era THEN Reiwa \o gap ELSE <<>>)
        \o (IF y = None THEN <<>> ELSE IntStr(y) \o gap \o <<"NEN">> \o gap)
        \o IntStr(mo) \o gap \o <<"GATSU">> \o gap \o IntStr(dy) \o gap \o <<"NICHI">>

EraYears   == 1..MaxEraYear
EraDays    == {1, 10, 28}
DatePrefix == {<<>>, <<" ">>, DateText(FALSE, 2025, 3, 9, FALSE) \o <<" ">>,
               DateText(FALSE, None, 5, 5, FALSE) \o <<"WAVE">>}
BaseYearMonth == {<<None, None>>, <<2025, None>>, <<2026, 4>>, <<2030, 12>>}
NowYears   == {2026}

EraDateInputs ==
    UNION {
      {[text |-> p \o DateText(TRUE, n, mo, dy, sp), base |-> b, now_year |-> ny,
        era |-> <<n, mo, dy>>] :
          p \in DatePrefix, dy \in EraDays \cup {DaysInMonth(2018 + n, mo)},
          sp \in BOOLEAN, b \in BaseYearMonth, ny \in NowYears} :
      n \in EraYears, mo \in 1..12}

OtherDateInputs ==
    {[text |-> t, base |-> b, now_year |-> ny, era |-> <<>>] :
        t \in { DateText(FALSE, 2026, 2, 30, FALSE), DateText(FALSE, None, 2, 30, FALSE),
                DateText(FALSE, None, 3, 31, TRUE), DateText(FALSE, None, 12, 1, FALSE),
                <<"1">> \o DateText(FALSE, 2026, 4, 1, FALSE),
                <<"1", "2", "3", "GATSU", "4", "NICHI">>,
                Reiwa \o <<"NEN">>, <<>> },
        b \in BaseYearMonth, ny \in NowYears}

InitDate ==
    /\ pc = "normalize_date"
    /\ arg \in EraDateInputs \cup OtherDateInputs
    /\ loc = <<>>
    /\ res = <<>>
    /\ all_events = <<>>
    /\ produced = <<>>

NormalizeDateCall ==
    /\ pc = "normalize_date"
    /\ res = <<>>
    /\ res' = <<normalize_date(arg.text, arg.base[1], arg.base[2], arg.now_year)>>
    /\ UNCHANGED <<pc, arg, loc, all_events, produced>>

NextDate == NormalizeDateCall

SpecDate == InitDate /\ [][NextDate]_vars

MondayHeader == WEEKDAYS
SundayHeader == <<WEEKDAYS[7]>> \o SubSeq(WEEKDAYS, 1, 6)
\* a row above the header: 4月
TitleRow     == <<<<"4", "GATSU">>, <<>>, <<>>, <<>>, <<>>, <<>>, <<>>>>

DefaultTime == <<"1", "0", ":", "3", "0", "WAVE", "1", "1", ":", "0", "0">>

\* 読み聞かせ会 10:30〜11:00
TextReading == <<"u8AAD", "u307F", "u805E", "ka", "u305B", "u4F1A", " ", "1", "0", ":", "3", "0", "WAVE", "1", "1", ":", "0", "0">>
ContentTexts ==
    { <<>>,
      <<"a", "b">>,
      TextReading,
      <<"u4F11", "u9928", "NICHI">>,              \* 休館日
      <<"STAR", "a", "b", "FLP", "c", "d", "FRP">> } \* ★ab（cd）

DateRow(start) == [k \in 1..7 |-> IntStr(start + k - 1)]

ContentRow(t1, t3, t7) ==
    [k \in 1..7 |-> IF k = 1 THEN t1 ELSE IF k = 3 THEN t3 ELSE IF k = 7 THEN t7 ELSE <<>>]

CalLayouts == {<<MondayHeader>>, <<SundayHeader>>, <<TitleRow, MondayHeader>>}
\* <<year, month, first day number of the first date row>>
CalCases   == {<<2026, 2, 0>>, <<2026, 2, LastStart>>, <<2026, 4, LastStart>>, <<2026, 4, 1>>}
\* the rows after the first date row and its content row: none, or a row
\* that is no date row and then a second date row with its content row
CalSecond  == {<<>>, <<TitleRow, DateRow(LastStart), ContentRow(<<>>, TextReading, TextReading)>>}

CalInputs ==
    {[table  |-> top \o <<DateRow(c[3]), ContentRow(t1, t3, t7)>> \o more,
      year   |-> c[1], month |-> c[2],
      source |-> "koda", url |-> "KODA_URL", default_time |-> DefaultTime] :
        top \in CalLayouts, c \in CalCases,
        t1 \in ContentTexts, t3 \in ContentTexts, t7 \in {<<>>, TextReading},
        more \in CalSecond}

InitCal ==
    /\ pc = "cal_header"
    /\ arg \in CalInputs
    /\ loc = <<>>
    /\ res = <<>>
    /\ all_events = <<>>
    /\ produced = <<>>

NextCal == CalFindHeader \/ CalDateRow \/ CalOtherRow \/ CalReturn

SpecCal == InitCal /\ [][NextCal]_vars

\* the day cells of date row r whose block holds an event text
EventCells(r) ==
    LET cells == DayCells(arg.table[r + 1], 0)
        crow  == IF r + 1 < Len(arg.table) THEN arg.table[r + 2] ELSE <<>>
    IN  {k \in 1..Len(cells) :
            LET blk == get_weekday_block(loc.wd_cols, cells[k][1])
                raw == IF blk = NoBlock THEN <<>> ELSE get_block_content(crow, blk.s, blk.e)
            IN  raw # <<>> /\ ~_is_non_event(raw) /\ ~_is_non_event(TitleOf(raw))}

DayOf(r, k) == DayCells(arg.table[r + 1], 0)[k][2]

InRange(r, k) == DayOf(r, k) \in 1..DaysInMonth(arg.year, arg.month)

IsoOfDay(d) == IsoJoin(IntStr(arg.year), Pad2(arg.month), Pad2(d))

\* C6: a day cell whose number is no day of the target month gives no event
\* and no exception, and every in-range day cell of the same and of later
\* date rows that holds an event text still gives its event
C6_OutOfRangeDropped ==
    /\ pc # "cal_raised"
    /\ (pc = "cal_done" /\ loc # <<>>) =>
          /\ \A n \in 1..Len(res[1]) :
                \E d \in 1..DaysInMonth(arg.year, arg.month) : res[1][n].date = IsoOfDay(d)
          /\ \A x \in 1..Len(loc.date_rows) :
                \A k \in EventCells(loc.date_rows[x]) :
                    InRange(loc.date_rows[x], k) =>
                        \E n \in 1..Len(res[1]) :
                            res[1][n].date = IsoOfDay(DayOf(loc.date_rows[x], k))
          /\ Len(res[1]) =
                Cardinality({<<x, k>> \in (1..Len(loc.date_rows)) \X (1..7) :
                                /\ k \in EventCells(loc.date_rows[x])
                                /\ InRange(loc.date_rows[x], k)})

\* an out-of-range day cell with an event text comes before an emitted cell of
\* its row, and a later date row emits too
C6_Witness ==
    /\ pc = "cal_done" /\ loc # <<>>
    /\ Len(loc.date_rows) = 2
    /\ \E k1 \in EventCells(loc.date_rows[1]), k2 \in EventCells(loc.date_rows[1]) :
          k1 < k2 /\ ~InRange(loc.date_rows[1], k1) /\ InRange(loc.date_rows[1], k2)
    /\ \E k \in EventCells(loc.date_rows[2]) : InRange(loc.date_rows[2], k)
    /\ \E k \in EventCells(loc.date_rows[2]) : ~InRange(loc.date_rows[2], k)
    /\ Len(res[1]) >= 2


(***************************************************************************)
(* Spec: one run of scrape(), or one call of scrape_all_halls(pdf_map)     *)
(***************************************************************************)
TitleA1 == <<"a", "b">>
TitleA2 == <<"c", "d">>
TitleB1 == <<"e", "f">>
TitleB2 == <<"g", "h">>
TitleC1 == <<"u4E73", "u5150">> \o <<"i">>      \* 乳児i
TitleC2 == <<"j">>

Anchor(url, title, kidate) == [url |-> url, title |-> title, kidate |-> kidate]

NaviA1 == Anchor("page1.html", TitleA1, <<"2", "0", "2", "6", "NEN", "4", "GATSU", "1", "0", "NICHI">>)
NaviA2 == Anchor("page2.html", TitleA1, <<"2", "0", "2", "6", "NEN", "4", "GATSU", "1", "0", "NICHI">>)
NaviA3 == Anchor("page3.html", TitleA2, <<"2", "0", "2", "6", "NEN", "1", "2", "GATSU", "1", "NICHI">>)
NaviA4 == Anchor("page4.html", <<>>, <<"2", "0", "2", "6", "NEN", "1", "2", "GATSU", "1", "NICHI">>)
NaviA5 == Anchor("page1.html", TitleA2, <<"2", "0", "2", "6", "NEN", "5", "GATSU", "5", "NICHI">>)
NaviA6 == Anchor("page6.html", TitleA2, <<>>)
NaviA7 == Anchor("page7.html", Star \o TitleA1, <<"2", "0", "2", "6", "NEN", "4", "GATSU", "1", "0", "NICHI">>)

\* the list pages source A is served: none, one page, one page with the
\* same event under two links, three pages that overlap, one page whose link
\* text begins with the reservation marker
PagesA == { <<>>,
            << <<NaviA7>> >>,
            << <<NaviA3, NaviA1>> >>,
            << <<NaviA1, NaviA2, NaviA6>> >>,
            << <<NaviA1, NaviA4, NaviA5>>, <<NaviA1, NaviA3>>, <<NaviA3>> >> }

Entry(title, kijitsu, apply) == [title |-> title, kijitsu |-> kijitsu, apply |-> apply]

SogoB1 == Entry(TitleB1, <<"4", "GATSU", "1", "0", "NICHI">>, <<>>)
SogoB2 == Entry(TitleB1, <<"2", "GATSU", "3", "0", "NICHI", "(", "DO", ")">>, <<"u8981", "u7533", "u8FBC">>)
SogoB3 == Entry(TitleB2, <<"REI", "WA", "8", "NEN", "1", "2", "GATSU", "1", "NICHI">>, <<"u7533", "u8FBC", "u4E0D", "u8981">>)
SogoB4 == Entry(TitleB2, <<>>, <<>>)
SogoB5 == Entry(TitleB2, <<"x">>, <<>>)
SogoB6 == Entry(Star \o TitleB1, <<"4", "GATSU", "1", "0", "NICHI">>, <<"u8981", "u7533", "u8FBC">>)

EntriesB == { <<>>, <<SogoB6>>, <<SogoB1, SogoB1>>, <<SogoB2, SogoB4>>, <<SogoB1, SogoB3, SogoB1>>,
              <<SogoB3, SogoB5, SogoB1>> }

Link(title, url, ct) == [title |-> title, url |-> url, ct |-> ct]

BunkaC1 == Link(TitleC1, "event.cgi?1", <<"2", "0", "2", "6", " ", "4", "GATSU", "1", "5", "NICHI", " ", "u4E8B", "ZEN", "u7533", "u8FBC">>)
BunkaC2 == Link(TitleC2, "event.cgi?2", <<"u5BFE", "u8C61", "/", "u4E73", "u5E7C", "u5150", " ", "F4", "GATSU", "F5", "NICHI">>)
BunkaC3 == Link(TitleC2, "event.cgi?3", <<"2", "0", "2", "6", " ", "2", "GATSU", "3", "0", "NICHI">>)
BunkaC4 == Link(TitleC1, "event.cgi?4", <<"2", "0", "2", "7", " ", "2", "GATSU", "3", "0", "NICHI", " ", "u5F53", "NICHI", "u7533", "u8FBC", "u53EF">>)
BunkaC5 == Link(TitleC1, "event.cgi?5", <<"x">>)

LinksC == { <<>>, <<BunkaC1, BunkaC4, BunkaC3>>, <<BunkaC2, BunkaC5>>, <<BunkaC4>> }

\* datetime.now() of the run
Nows == { [year |-> 2026, month |-> 11], [year |-> 2026, month |-> 3] }

HallEvent(source, title, date, description) ==
    [title |-> title, date |-> date, description |-> description,
     source |-> source, url |-> "hall-url"]

\* what an adapter may return for the bytes it is given
AdapterOutputs(source) ==
    { <<>>,
      <<HallEvent(source, <<"k">>, <<"2", "0", "2", "6", "-", "0", "4", "-", "0", "3">>, <<>>)>>,
      <<HallEvent(source, Star \o <<"m">>, <<"2", "0", "2", "6", "-", "0", "4", "-", "1", "0">>, <<>>),
        HallEvent(source, <<"k">>, <<>>, Yoyaku)>> }

\* the halls a PDF is uploaded for, with its bytes empty or not
Uploaded == {HALL_CONFIGS[k] : k \in 1..MaxUploaded}
PdfMaps == UNION {[S -> {"bytes", "empty"}] : S \in SUBSET Uploaded}

Init ==
    /\ \E now \in Nows :
         \/ /\ pc = "A"
            /\ arg = [entry |-> "scrape", pdf_map |-> <<>>, now |-> now]
         \/ /\ pc = "halls"
            /\ \E m \in PdfMaps :
                 arg = [entry |-> "scrape_all_halls", pdf_map |-> m, now |-> now]
    /\ loc = [k |-> 1, raw |-> <<>>]
    /\ res = <<>>
    /\ all_events = <<>>
    /\ produced = <<>>


\* try: all_events.extend(scrape_kosodate_with_page(pw_page))
ScrapeA ==
    \E pages \in PagesA :
        SourceReturns("A", "B", SOURCE_A, scrape_kosodate_with_page(pages))

ScrapeAError == SourceRaises("A", "B", SOURCE_A)

\* try: all_events.extend(scrape_sogo_center_with_page(pw_page))
ScrapeB ==
    \E entries \in EntriesB :
        SourceReturns("B", "C", SOURCE_B,
                      scrape_sogo_center_with_page(entries, arg.now))

ScrapeBError == SourceRaises("B", "C", SOURCE_B)

\* try: all_events.extend(scrape_kodomobunka())
ScrapeC ==
    \E links \in LinksC :
        SourceReturns("C", "D", SOURCE_C, scrape_kodomobunka(links, arg.now))

ScrapeCError == SourceRaises("C", "D", SOURCE_C)

\* try: all_events.extend(scrape_all_halls_adapted()): scrape_all_halls is
\* entered with pdf_map = None
ScrapeD ==
    /\ pc = "D"
    /\ pc' = "halls"
    /\ loc' = [k |-> 1, raw |-> <<>>]
    /\ UNCHANGED <<arg, res, all_events, produced>>

\* pdf_bytes of the loop: pdf_map[source] when the hall is in pdf_map; no
\* entry has a pdf_url, so there is nothing to fetch otherwise
pdf_bytes(source) ==
    IF source \in DOMAIN arg.pdf_map THEN arg.pdf_map[source] ELSE "none"

\* for cfg in HALL_CONFIGS: no bytes for this hall (not in pdf_map and no
\* pdf_url, or empty bytes): continue
HallSkip ==
    /\ pc = "halls"
    /\ loc.k <= Len(HALL_CONFIGS)
    /\ pdf_bytes(HALL_CONFIGS[loc.k]) # "bytes"
    /\ loc' = [loc EXCEPT !.k = @ + 1]
    /\ UNCHANGED <<pc, arg, res, all_events, produced>>

\* try: events = scraper(pdf_bytes); all_events.extend(events)
HallAdapter ==
    /\ pc = "halls"
    /\ loc.k <= Len(HALL_CONFIGS)
    /\ LET source == HALL_CONFIGS[loc.k]
       IN  /\ pdf_bytes(source) = "bytes"
           /\ \E events \in AdapterOutputs(source) :
                /\ loc' = [k |-> loc.k + 1, raw |-> loc.raw \o events]
                /\ produced' = Append(produced, Returned(source, TRUE, events))
    /\ UNCHANGED <<pc, arg, res, all_events>>

\* except Exception as e: logger.error(...)
HallAdapterError ==
    /\ pc = "halls"
    /\ loc.k <= Len(HALL_CONFIGS)
    /\ LET source == HALL_CONFIGS[loc.k]
       IN  /\ pdf_bytes(source) = "bytes"
           /\ produced' = Append(produced, Raised(source, TRUE))
    /\ pc' = Caught("halls")
    /\ loc' = [loc EXCEPT !.k = @ + 1]
    /\ UNCHANGED <<arg, res, all_events>>

\* return all_events of scrape_all_halls: to its caller, or through
\* scrape_all_halls_adapted into the list of scrape()
HallsReturn ==
    /\ pc = "halls"
    /\ loc.k > Len(HALL_CONFIGS)
    /\ IF arg.entry = "scrape_all_halls"
       THEN /\ pc' = "done"
            /\ res' = <<loc.raw>>
            /\ UNCHANGED all_events
       ELSE /\ pc' = "sort"
            /\ all_events' = all_events \o scrape_all_halls_adapted(loc.raw)
            /\ UNCHANGED res
    /\ UNCHANGED <<arg, loc, produced>>

\* all_events.sort(key=...); return all_events
SortAndReturn ==
    /\ pc = "sort"
    /\ all_events' = SortByDateIso(all_events)
    /\ res' = <<all_events'>>
    /\ pc' = "done"
    /\ UNCHANGED <<arg, loc, produced>>

Next ==
    \/ ScrapeA \/ ScrapeAError
    \/ ScrapeB \/ ScrapeBError
    \/ ScrapeC \/ ScrapeCError
    \/ ScrapeD
    \/ HallSkip \/ HallAdapter \/ HallAdapterError \/ HallsReturn
    \/ SortAndReturn

Spec == Init /\ [][Next]_vars


(***************************************************************************)
(* Properties of the run                                                   *)
(***************************************************************************)
\* what the sources (hall = FALSE) or adapters (hall = TRUE) that did not
\* raise returned, in the order they ran
RECURSIVE Survivors(_, _)
Survivors(hall, k) ==
    IF k = 0 THEN <<>>
    ELSE Survivors(hall, k - 1)
         \o (IF produced[k].hall = hall /\ ~produced[k].raised
             THEN produced[k].events ELSE <<>>)

Count(e, list) == Cardinality({k \in 1..Len(list) : list[k] = e})

SameEvents(a, b) ==
    /\ Len(a) = Len(b)
    /\ \A k \in 1..Len(a) : Count(a[k], a) = Count(a[k], b)

Finished(entry) == pc = "done" /\ arg.entry = entry

C2_NoDuplicateTriple ==
    Finished("scrape") =>
        \A i, j \in 1..Len(res[1]) :
            i < j => \/ res[1][i].source # res[1][j].source
                     \/ res[1][i].date_iso # res[1][j].date_iso
                     \/ res[1][i].title # res[1][j].title

\* the year, month and day a date_iso stands for
IsoYMD(d) ==
    LET i1 == FindFrom(d, <<"-">>, 1)
        i2 == FindFrom(d, <<"-">>, i1 + 1)
    IN  [y  |-> IntOf(SubSeq(d, 1, i1 - 1)),
         mo |-> IntOf(SubSeq(d, i1 + 1, i2 - 1)),
         dy |-> IntOf(SubSeq(d, i2 + 1, Len(d)))]

\* C3: every record of the list scrape() returns has a date that is a date
\* of the Gregorian calendar
C3_ValidDates ==
    Finished("scrape") =>
        \A k \in 1..Len(res[1]) :
            /\ res[1][k].date_iso # <<>>
            /\ LET d == IsoYMD(res[1][k].date_iso) IN ValidDate(d.y, d.mo, d.dy)

\* whether the date of a comes before the date of b, or is the same
DateLeq(a, b) ==
    LET x == IsoYMD(a)
        y == IsoYMD(b)
    IN  \/ x.y < y.y
        \/ x.y = y.y /\ x.mo < y.mo
        \/ x.y = y.y /\ x.mo = y.mo /\ x.dy <= y.dy

\* C4: the list scrape() returns is in ascending order of date, the
\* records without a date after all the others
C4_SortedByDate ==
    Finished("scrape") =>
        \A i, j \in 1..Len(res[1]) :
            i < j =>
                LET a == res[1][i].date_iso
                    b == res[1][j].date_iso
                IN  IF a = <<>> THEN b = <<>>
                    ELSE b = <<>> \/ DateLeq(a, b)


(***************************************************************************)
(* SpecCalSingle: _parse_calendar_table on a table with one date row 1..7  *)
(* and one content row with a single cell, "title range", in it            *)
(***************************************************************************)
\* 読み聞かせ会, ★ab, "ab cd"
SingleTitles == { <<"u8AAD", "u307F", "u805E", "ka", "u305B", "u4F1A">>, <<"STAR", "a", "b">>, <<"a", "b", " ", "c", "d">> }

\* a range as the cell writes it and as HH:MM〜HH:MM
SingleRanges ==
    { [text |-> <<"1", "0", ":", "3", "0", "WAVE", "1", "1", ":", "0", "0">>,  norm |-> <<"1", "0", ":", "3", "0", "WAVE", "1", "1", ":", "0", "0">>],
      [text |-> <<"9", ":", "3", "0", "FTILDE", "1", "1", ":", "0", "0">>,   norm |-> <<"0", "9", ":", "3", "0", "WAVE", "1", "1", ":", "0", "0">>],
      [text |-> <<"1", "3", ":", "0", "0", "CHOON", "1", "5", ":", "3", "0">>,  norm |-> <<"1", "3", ":", "0", "0", "WAVE", "1", "5", ":", "3", "0">>],
      [text |-> <<"F1", "F0", "FCOLON", "F3", "F0", "WAVE", "F1", "F1", "FCOLON", "F0", "F0">>, norm |-> <<"1", "0", ":", "3", "0", "WAVE", "1", "1", ":", "0", "0">>] }

SingleDefaultTime == <<"1", "0", ":", "0", "0", "WAVE", "1", "2", ":", "0", "0">>

OneCellRow(col, text) == [k \in 1..7 |-> IF k = col THEN text ELSE <<>>]

SingleInputs ==
    {[table  |-> top \o <<DateRow(1), OneCellRow(col, t \o <<" ">> \o r.text)>> \o below,
      year   |-> 2026, month |-> mo,
      source |-> "koda", url |-> "KODA_URL", default_time |-> SingleDefaultTime] :
        top \in CalLayouts, mo \in {2, 4}, col \in 1..7,
        t \in SingleTitles, r \in SingleRanges, below \in {<<>>, <<TitleRow>>}}

InitCalSingle ==
    /\ pc = "cal_header"
    /\ arg \in SingleInputs
    /\ loc = <<>>
    /\ res = <<>>
    /\ all_events = <<>>
    /\ produced = <<>>

SpecCalSingle == InitCalSingle /\ [][NextCal]_vars

\* the column (1..7) of the one cell of the content row, and its text
SingleCol  == CHOOSE col \in 1..7 : arg.table[loc.date_rows[1] + 2][col] # <<>>
SingleCell == arg.table[loc.date_rows[1] + 2][SingleCol]

YmPiece(kind, text, y, mo) == [kind |-> kind, text |-> text, y |-> y, mo |-> mo]

YmPieces ==
    { YmPiece("reiwa", <<"REI", "WA", " ", "F7", "NEN", " ", "1", "2", "GATSU">>, 2025, 12),
      YmPiece("west",  <<"2", "0", "2", "6", "NEN", "5", "GATSU">>, 2026, 5),
      YmPiece("paren", <<"FLP", "2", "0", "2", "6", "NEN", "FRP">>, 2026, 0),
      YmPiece("gou",   <<"6", "GATSU", "u53F7">>, 0, 6),
      YmPiece("gou",   <<"F2", "GATSU", "u53F7">>, 0, 2),
      YmPiece("nendo", <<"REI", "WA", "8", "NEN", "u5EA6">>, 8, 0),
      YmPiece("tsuki", <<"3", "GATSU">>, 0, 3),
      YmPiece("tsuki", <<"1", "1", " ", "GATSU">>, 0, 11),
      YmPiece("pad",   [k \in 1..TsukiWindow |-> "x"], 0, 0) }

\* all sequences of at most n pieces
RECURSIVE YmSeqs(_)
YmSeqs(n) ==
    IF n = 0 THEN {<<>>}
    ELSE LET shorter == YmSeqs(n - 1)
         IN  shorter \cup {<<p>> \o t : p \in YmPieces, t \in {u \in shorter : Len(u) = n - 1}}

\* the texts of the pieces, a space after each
RECURSIVE YmText(_)
YmText(ps) ==
    IF ps = <<>> THEN <<>> ELSE ps[1].text \o <<" ">> \o YmText(Tail(ps))

Creations ==
    { [text |-> <<>>, has |-> FALSE, y |-> 0, mo |-> 0],
      [text |-> <<"D", ":", "2", "0", "2", "6", "0", "4", "1", "7", "0", "9", "3", "0", "0", "0", "+", "0", "9", "'", "0", "0", "'">>, has |-> TRUE, y |-> 2026, mo |-> 4],
      [text |-> <<"D", ":", "2", "0", "2", "5", "1", "2", "0", "1", "1", "0", "1", "5", "0", "0">>, has |-> TRUE, y |-> 2025, mo |-> 12] }

\* a creation timestamp (a member of Creations, by its month) and a fallback pair
YmCalls == {<<0, 2026, 9>>, <<0, 2031, 12>>, <<4, 2026, 9>>, <<12, 2031, 12>>}

CreationOf(mo) == CHOOSE d \in Creations : d.mo = mo

YmInputs ==
    {[text |-> YmText(ps), creation_date |-> CreationOf(f[1]).text,
      fallback_year |-> f[2], fallback_month |-> f[3],
      pieces |-> ps, creation |-> CreationOf(f[1])] :
        ps \in YmSeqs(MaxYmPieces), f \in YmCalls}

InitYearMonth ==
    /\ pc = "ym_text"
    /\ arg \in YmInputs
    /\ loc = <<>>
    /\ res = <<>>
    /\ all_events = <<>>
    /\ produced = <<>>

NextYearMonth == YearMonthFromText \/ YearMonthFromMetadata

SpecYearMonth == InitYearMonth /\ [][NextYearMonth]_vars

\* the first piece of arg.pieces of one of the kinds, 0 when there is none
FirstOf(kinds) ==
    LET hits == {k \in 1..Len(arg.pieces) : arg.pieces[k].kind \in kinds}
    IN  IF hits = {} THEN 0 ELSE MinOf(hits)

\* a piece holding "M gatsu" that lies within the first TsukiWindow characters
NearTsuki ==
    LET mo  == FirstOf({"tsuki", "gou"})
        pad == FirstOf({"pad"})
    IN  IF mo # 0 /\ (pad = 0 \/ mo < pad) THEN mo ELSE 0

\* what the four patterns, taken in their order, give for the pieces of the text
ExpectedFromText ==
    LET ps == arg.pieces
    IN  IF FirstOf({"reiwa"}) # 0
        THEN YM(ps[FirstOf({"reiwa"})].y, ps[FirstOf({"reiwa"})].mo)
        ELSE IF FirstOf({"west"}) # 0
        THEN YM(ps[FirstOf({"west"})].y, ps[FirstOf({"west"})].mo)
        ELSE IF FirstOf({"paren"}) # 0 /\ FirstOf({"gou"}) # 0
        THEN YM(ps[FirstOf({"paren"})].y, ps[FirstOf({"gou"})].mo)
        ELSE IF FirstOf({"nendo"}) # 0 /\ NearTsuki # 0
        THEN YM(ps[FirstOf({"nendo"})].y + 2018
                  + (IF ps[NearTsuki].mo <= 3 THEN 1 ELSE 0), ps[NearTsuki].mo)
        ELSE YM(0, 0)

\* C13: the text resolver takes the first of its four patterns that matches:
\* "Reiwa N nen M gatsu" gives (N + 2018, M); then "20YY nen M gatsu"; then a
\* parenthesised "20YY nen" with "M gatsu gou"; then "Reiwa N nendo" with an
\* "M gatsu" in the first 150 characters gives N + 2018, plus 1 when M <= 3;
\* when none matches the result is exactly the fallback pair that was given
C13_FirstPatternWins ==
    res # <<>> /\ pc \in {"ym_metadata", "ym_done"} =>
        res[1] = IF ExpectedFromText = YM(0, 0)
                 THEN YM(arg.fallback_year, arg.fallback_month)
                 ELSE ExpectedFromText

\* a school-year text whose month falls in January..March, with an earlier
\* pattern absent, resolved into the next calendar year
C13_Witness ==
    /\ pc = "ym_done"
    /\ FirstOf({"reiwa", "west", "paren"}) = 0
    /\ FirstOf({"nendo"}) # 0 /\ NearTsuki # 0
    /\ res[1] = YM(2027, 3)


\* what the metadata resolver's strategies, taken in their order, give
ExpectedFromMetadata ==
    LET g == FirstOf({"gou"})
        c == arg.creation
        n == arg.pieces[g].mo
    IN  IF ExpectedFromText # YM(0, 0) THEN ExpectedFromText
        ELSE IF g # 0 /\ c.has
        THEN (IF n >= c.mo THEN YM(c.y, n) ELSE YM(c.y + 1, n))
        ELSE IF c.has
        THEN (IF c.mo = 12 THEN YM(c.y + 1, 1) ELSE YM(c.y, c.mo + 1))
        ELSE YM(arg.fallback_year, arg.fallback_month)

\* C12: the metadata resolver returns (1) what the text resolver finds; (2) else,
\* for a text holding "N gatsu gou" and a creation timestamp, (creation year, N)
\* when N is not before the creation month and (creation year + 1, N) when it
\* is; (3) else, with a creation timestamp, the month after the creation month,
\* January of the next year after December; (4) else the fallback it was given
C12_StrategyOrder ==
    pc = "ym_done" => res[2] = ExpectedFromMetadata

\* an issue month that precedes the creation month is placed in the next year
C12_Witness ==
    /\ pc = "ym_done"
    /\ ExpectedFromText = YM(0, 0)
    /\ FirstOf({"gou"}) # 0
    /\ arg.creation.has /\ arg.creation.mo = 4
    /\ res[2] = YM(2027, 2)


\* C14: in every record of the list scrape() returns, needs_reservation is
\* true exactly when the title begins with the reservation marker, and no
\* title begins with two markers, also when the title on the source page
\* already began with the marker
C14_MarkerUniform ==
    Finished("scrape") =>
        \A k \in 1..Len(res[1]) :
            /\ res[1][k].needs_reservation <=> StartsWithAt(res[1][k].title, 1, Star)
            /\ ~StartsWithAt(res[1][k].title, 1, Star \o Star)


(***************************************************************************)
(* SpecGofuku: one call of scrape_gofuku(pdf_bytes, manual_json_path)      *)
(***************************************************************************)
GofukuManuals ==
    {[path |-> FALSE, exists |-> FALSE, json |-> FALSE, events |-> <<>>],
     [path |-> TRUE,  exists |-> FALSE, json |-> FALSE, events |-> <<>>],
     [path |-> TRUE,  exists |-> TRUE,  json |-> FALSE, events |-> <<>>]}
    \cup {[path |-> TRUE, exists |-> TRUE, json |-> TRUE, events |-> es] :
            es \in AdapterOutputs(GOFUKU_SOURCE)}

\* the text of the first page: none for a scan, or some words
GofukuTexts == { <<>>, <<"REI", "WA", "8", "NEN", "4", "GATSU">>, <<"5", "GATSU", "u53F7">>, <<"a", "b">> }

GofukuPdfs ==
    {[opens |-> FALSE, pages |-> <<>>, creation_date |-> <<>>]}
    \cup {[opens |-> TRUE, pages |-> ps, creation_date |-> c.text] :
            ps \in {<<>>} \cup {<<t>> : t \in GofukuTexts}, c \in Creations}

InitGofuku ==
    /\ pc = "gofuku"
    /\ arg \in [manual : GofukuManuals, pdf : GofukuPdfs, now : Nows]
    /\ loc = [log |-> <<>>, year_month |-> YM(0, 0)]
    /\ res = <<>>
    /\ all_events = <<>>
    /\ produced = <<>>

NextGofuku ==
    \/ GofukuManualJson \/ GofukuManualJsonError
    \/ GofukuManualMissing \/ GofukuNoManual
    \/ GofukuPdf \/ GofukuPdfError

SpecGofuku == InitGofuku /\ [][NextGofuku]_vars

\* C15: scrape_gofuku never raises; whatever the bytes, it returns the manual
\* override list or the empty list, and in both outcomes a warning is logged
C15_GofukuNeverRaises ==
    /\ pc # "gofuku_raised"
    /\ pc = "gofuku_done" =>
         /\ res[1] = <<>> \/ (arg.manual.path /\ res[1] = arg.manual.events)
         /\ \E k \in 1..Len(loc.log) : loc.log[k].level = "warning"


(***************************************************************************)
(* SpecTables: each PDF adapter given the tables of a page whose structure *)
(* may not be the one it expects                                           *)
(***************************************************************************)
TableAdapters == {"KODA", "SEIBU", "NISHIHARA", "HANAZONO", "TAKUMA", "AKITSU",
                  "TENMEI", "JONAN"}

\* a table without rows, one with a weekday header, one without, one of 20 columns
SomeTables == { <<>>,
                <<MondayHeader, DateRow(1)>>,
                <<TitleRow>>,
                << [k \in 1..20 |-> <<>>] >> }

\* all sequences of at most n of these tables
RECURSIVE TableSeqs(_)
TableSeqs(n) ==
    IF n = 0 THEN {<<>>}
    ELSE LET shorter == TableSeqs(n - 1)
         IN  shorter \cup {<<t>> \o ts : t \in SomeTables, ts \in {u \in shorter : Len(u) = n - 1}}

TableInputs ==
    {[hall |-> h, tables |-> ts, back_tables |-> <<>>] :
        h \in TableAdapters, ts \in TableSeqs(MaxTables)}
    \cup {[hall |-> "HANAZONO", tables |-> ts, back_tables |-> << <<TitleRow>> >>] :
            ts \in TableSeqs(MaxTables)}

InitTables ==
    /\ pc = "tables"
    /\ arg \in TableInputs
    /\ loc = [log |-> <<>>, cal_table |-> <<>>]
    /\ res = <<>>
    /\ all_events = <<>>
    /\ produced = <<>>

NextTables ==
    \/ ScrapeKodaTable \/ ScrapeSeibuTable \/ ScrapeNishiharaTable
    \/ ScrapeHanazonoTable \/ ScrapeTakumaTable \/ ScrapeAkitsuTable
    \/ ScrapeTenmeiTable \/ ScrapeJonanTable
    \/ CalTableHeader

SpecTables == InitTables /\ [][NextTables]_vars

\* C16: no adapter lets an exception out over the structure of the page, and
\* one that is given no table at all has returned the empty list after a
\* warning that names the facility
C16_MismatchRecovered ==
    /\ pc # "tables_raised"
    /\ (pc # "tables" /\ arg.tables = <<>>) =>
          /\ pc = "tables_warned"
          /\ res = << <<>> >>
          /\ Logged("warning", arg.hall) \in Range(loc.log)


(***************************************************************************)
(* SpecHanazono: one call of scrape_hanazono on a 14-column calendar (the  *)
(* header cell of a weekday one column right of its data) and a back page  *)
(* of one row                                                              *)
(***************************************************************************)
HzHeader == [k \in 1..14 |-> IF k % 2 = 0 THEN WEEKDAYS[k \div 2] ELSE <<>>]

\* the day numbers start, start + 1, ... in the data columns 0, 2, ..., 12
HzDateRow(start) == [k \in 1..14 |-> IF k % 2 = 1 THEN IntStr(start + (k - 1) \div 2) ELSE <<>>]

\* texts under the first and under the third day of the row
HzContentRow(t1, t3) == [k \in 1..14 |-> IF k = 1 THEN t1 ELSE IF k = 6 THEN t3 ELSE <<>>]

Ohanashi == <<"u304A", "u306F", "u306A", "u3057", "u4F1A">>
Rizumu   == <<"u30EA", "u30BA", "u30E0">>

HzCalendars ==
    {<<HzHeader, HzDateRow(1), HzContentRow(t1, t3)>> \o more :
        t1 \in {<<>>, Ohanashi, <<"u4F11", "u9928", "NICHI">>, <<"a", "b", "\n", "FLP", "c", "FRP">>},
        t3 \in {<<>>, TextReading},
        more \in {<<>>, <<HzDateRow(1), HzContentRow(<<"a", "b">>, <<>>)>>}}

BackCells ==
    { <<"u300C", "u304A", "u306F", "u306A", "u3057", "u4F1A", "u300D", "4", "GATSU", "1", "NICHI", " ", "1", "0", ":", "3", "0", "FTILDE", "1", "1", ":", "1", "5", "LBR", "u5BFE", "u8C61", "u3011", "u4E73", "u5E7C", "u5150", "u3068", "u4FDD", "u8B77", "u8005">>,
      <<"u300C", "u30EA", "u30BA", "u30E0", "u300D", "4", "GATSU", "3", "NICHI">>,
      <<"u300C", "u3053", "u3046", "u3055", "u304F", "u300D", "u5C0F", "u5B66", "u751F", " ", "4", "GATSU", "3", "NICHI">>,
      <<"u300C", "ra", "u3044", "u3052", "u3064", "u300D", "5", "GATSU", "1", "NICHI", " ", "1", "1", ":", "0", "0", "WAVE", "1", "1", ":", "3", "0", "LBR", "u5BFE", "u8C61", "u3011", "0", "u6B73", "LBR", "u7533", "u8FBC", "u3011", "u8981">>,
      <<"u300C", "u3079", "u3064", "u300D", "F4", "GATSU", "F1", "NICHI">>,
      <<"u300C", "u3060", "u3081", "u300D", "2", "GATSU", "3", "0", "NICHI">>,
      <<"4", "GATSU", "1", "NICHI", " ", "u3060", "u3051">> }

\* all rows of at most n of these cells
RECURSIVE BackRowsOf(_)
BackRowsOf(n) ==
    IF n = 0 THEN {<<>>}
    ELSE LET shorter == BackRowsOf(n - 1)
         IN  shorter \cup {<<c>> \o r : c \in BackCells, r \in {u \in shorter : Len(u) = n - 1}}

HanazonoInputs ==
    {[cal_table |-> cal, back_table |-> <<row>>, text |-> t, creation_date |-> <<>>,
      now |-> [year |-> 2026, month |-> 11]] :
        cal \in HzCalendars, row \in BackRowsOf(MaxBackCells),
        t \in {<<"REI", "WA", "8", "NEN", "4", "GATSU">>, <<"REI", "WA", "8", "NEN", "2", "GATSU">>}}

InitHanazono ==
    /\ pc = "hanazono"
    /\ arg \in HanazonoInputs
    /\ loc = <<>>
    /\ res = <<>>
    /\ all_events = <<>>
    /\ produced = <<>>

NextHanazono == HanazonoPages \/ HanazonoCalendar \/ HanazonoBackOnly

SpecHanazono == InitHanazono /\ [][NextHanazono]_vars

\* the events of a list that fall on a date
OnDate(events, date) == {j \in 1..Len(events) : events[j].date = date}

\* C17: every key of the back page is in the output of scrape_hanazono: when
\* the calendar gave events for that day of the target month, as those events
\* with the title of the back page (its time when it has one, its audience)
\* and nothing more; otherwise as exactly one event made from the back page
C17_BackKeysJoined ==
    pc = "hanazono_done" =>
        \A k \in 1..Len(loc.back_detail) :
            LET d   == loc.back_detail[k]
                cal == OnDate(loc.front_events, d.date)
                out == OnDate(res[1], d.date)
            IN  /\ \A j \in out :
                     /\ res[1][j].title = d.title
                     /\ res[1][j].description = d.description
                     /\ d.time # NoTime => res[1][j].time = d.time
                /\ IF d.month = loc.month /\ cal # {}
                   THEN Cardinality(out) = Cardinality(cal)
                   ELSE cal = {} /\ Cardinality(out) = 1

\* the calendar has an event on 3 April that the back page names differently,
\* and the back page has an event of the next month
C17_Witness ==
    /\ pc = "hanazono_done"
    /\ loc.month = 4
    /\ \E j \in 1..Len(res[1]) :
         /\ res[1][j].title = Rizumu
         /\ res[1][j].date = <<"2", "0", "2", "6", "-", "0", "4", "-", "0", "3">>
         /\ res[1][j].time = <<"1", "0", ":", "3", "0", "WAVE", "1", "1", ":", "0", "0">>
    /\ Cardinality(OnDate(res[1], <<"2", "0", "2", "6", "-", "0", "4", "-", "0", "3">>)) = 1
    /\ Cardinality(OnDate(res[1], <<"2", "0", "2", "6", "-", "0", "5", "-", "0", "1">>)) = 1


(***************************************************************************)
(* SpecJonan: one call of scrape_jonan on a calendar whose third row holds *)
(* a cell built from a day and some lines                                  *)
(***************************************************************************)
Sokutei == <<"u8EAB", "u4F53", "u6E2C", "u5B9A">>

\* title lines with an allow keyword, a deny keyword, both, none; a time line
JonanLineSet ==
    { Sokutei,
      <<"u30AD", "u30C3", "u30BA", "u4F53", "u64CD">>,
      <<"u4E73", "u5E7C", "u5150", "u304A", "u3059", "u3059", "u3081", " ", "u8EAB", "u4F53", "u6E2C", "u5B9A">>,
      <<"u3048", "u307B", "u3093">>,
      <<"E", "n", "g", "l", "i", "s", "h">>,
      <<"1", "0", ":", "3", "0", "FTILDE", "1", "1", ":", "0", "0">> }

\* all sequences of at most n of these lines
RECURSIVE JonanLineSeqs(_)
JonanLineSeqs(n) ==
    IF n = 0 THEN {<<>>}
    ELSE LET shorter == JonanLineSeqs(n - 1)
         IN  shorter \cup {<<l>> \o ls : l \in JonanLineSet, ls \in {u \in shorter : Len(u) = n - 1}}

\* day, then the lines, one per line of the cell
JonanCellText(day, ls) == Join(<<day>> \o ls, <<"\n">>)

JonanFixedCell == <<"5">> \o <<"\n">> \o Sokutei \o <<"\n">> \o <<"9", ":", "3", "0", "WAVE", "1", "0", ":", "0", "0">>

JonanInputs ==
    {[cal |-> << <<<<"NICHI">>, <<"GATSU">>>>,
                 <<JonanFixedCell, <<>>>>,
                 <<JonanCellText(day, ls), JonanFixedCell>>,
                 <<JonanFixedCell, <<>>>> >>,
      text |-> t, creation_date |-> <<>>, now |-> [year |-> 2026, month |-> 11],
      day |-> IF day = <<"7">> THEN 7 ELSE 30, lines |-> ls] :
        day \in {<<"7">>, <<"F3", "F0">>}, ls \in JonanLineSeqs(MaxJonanLines),
        t \in {<<"REI", "WA", "8", "NEN", "2", "GATSU", "u53F7">>, <<"REI", "WA", "8", "NEN", "4", "GATSU", "u53F7">>}}

InitJonan ==
    /\ pc = "jonan"
    /\ arg \in JonanInputs
    /\ loc = <<>>
    /\ res = <<>>
    /\ all_events = <<>>
    /\ produced = <<>>

NextJonan == JonanSubEvents \/ JonanFilter

SpecJonan == InitJonan /\ [][NextJonan]_vars

\* C18: an event of scrape_jonan has a title with no deny keyword and at
\* least one allow keyword; a candidate sub-event whose title has a deny and
\* an allow keyword is not among the events
C18_AudienceFilter ==
    pc = "jonan_done" =>
        /\ \A j \in 1..Len(res[1]) :
             /\ ~SearchAny(_JONAN_SKIP_RE, res[1][j].title)
             /\ SearchAny(_JONAN_INFANT_RE, res[1][j].title)
        /\ \A k \in 1..Len(loc.candidates) :
             (SearchAny(_JONAN_SKIP_RE, loc.candidates[k].title)
                /\ SearchAny(_JONAN_INFANT_RE, loc.candidates[k].title))
             => \A j \in 1..Len(res[1]) : res[1][j].title # loc.candidates[k].title

\* a cell with a sub-event that matches both lists and one that matches the
\* allow list only: the second is emitted, the first is not
C18_Witness ==
    /\ pc = "jonan_done"
    /\ \E k \in 1..Len(loc.candidates) :
         /\ loc.candidates[k].title = <<"u4E73", "u5E7C", "u5150", "u304A", "u3059", "u3059", "u3081", " ", "u8EAB", "u4F53", "u6E2C", "u5B9A">>
         /\ loc.candidates[k].day = 7
    /\ \E j \in 1..Len(res[1]) :
         res[1][j].title = <<"E", "n", "g", "l", "i", "s", "h">> /\ res[1][j].date = <<"2", "0", "2", "6", "-", "0", "4", "-", "0", "7">>


(***************************************************************************)
(* SpecGuess: the classifiers on texts joined from keywords of the tables, *)
(* halves of keywords and text that is in no table                         *)
(***************************************************************************)
TagPieces ==
    { <<"u7523", "KOU">>, <<"u30E8", "u30AC">>, <<"u30D1", "u30D1">>, <<"u4E73">>, <<"u5E7C", "u5150">>, <<"F1", "u6B73">>, <<"u6B6F">>, <<"u306E", "u4F1A">> }

TagTexts == Concats(TagPieces, MaxTagPieces)

InitGuess ==
    /\ pc = "guess"
    /\ arg \in {[text |-> t] : t \in TagTexts}
    /\ loc = <<>>
    /\ res = <<>>
    /\ all_events = <<>>
    /\ produced = <<>>

NextGuess == GuessOnce \/ GuessAgain

SpecGuess == InitGuess /\ [][NextGuess]_vars

\* the rows of the table whose keyword occurs in the text
RowsFound(table, t) == {k \in 1..Len(table) : Contains(t, table[k][1])}

\* the tag the table gives a text: that of the lowest row found, or the default
TagExpected(table, t, default) ==
    IF RowsFound(table, t) = {} THEN default
    ELSE table[CHOOSE k \in RowsFound(table, t) : \A j \in RowsFound(table, t) : k <= j][2]

TagsOf(table) == {table[k][2] : k \in 1..Len(table)}

\* C19: guess_category and guess_age return the tag of the first keyword in
\* table order that occurs in the text, the default tag when none occurs; the
\* result is a tag of the table or the default; a second call on the same
\* text returns the same tag
C19_FirstKeywordTag ==
    /\ pc \in {"guess_again", "guess_done"} =>
         /\ res[1] = TagExpected(CATEGORY_MAP, arg.text, <<"u305D", "u306E", "u4ED6">>)
         /\ res[2] = TagExpected(AGE_MAP, arg.text, <<"u6307", "u5B9A", "u306A", "u3057">>)
         /\ res[1] \in TagsOf(CATEGORY_MAP) \cup {<<"u305D", "u306E", "u4ED6">>}
         /\ res[2] \in TagsOf(AGE_MAP) \cup {<<"u6307", "u5B9A", "u306A", "u3057">>}
    /\ pc = "guess_done" => res[3] = res[1] /\ res[4] = res[2]

\* a text with two category keywords of different tags, the later row first
\* in the text, and no age keyword
C19_Witness ==
    /\ pc = "guess_done"
    /\ arg.text = <<"u30E8", "u30AC", "u30D1", "u30D1">>
    /\ res[1] = <<"u7236", "u89AA", "u30FB", "u5BB6", "u65CF", "u652F", "u63F4">>
    /\ res[2] = <<"u6307", "u5B9A", "u306A", "u3057">>


(***************************************************************************)
(* SpecHeader: _parse_calendar_table on tables of a few rows, some with    *)
(* weekday cells: four of them, five in mixed order between empty cells,   *)
(* all seven from Sunday                                                   *)
(***************************************************************************)
\* 月 火 水 木 and three cells that are no weekday
FourDayRow == SubSeq(WEEKDAYS, 1, 4) \o <<<<>>, <<"a">>, <<" ">>>>
\* 9 cells wide; 水, 月, 金, 火, 木 in columns 1, 3, 4, 6, 7
MixedHeader ==
    <<<<>>, WEEKDAYS[3], <<>>, <<" ">> \o WEEKDAYS[1] \o <<" ">>, WEEKDAYS[5], <<>>,
      WEEKDAYS[2], WEEKDAYS[4] \o <<"\n">>, <<>>>>

HeaderRowSet == {FourDayRow, MixedHeader, SundayHeader, TitleRow, DateRow(1),
                 ContentRow(<<>>, TextReading, <<"a", "b">>)}

\* all tables of at most n of these rows
RECURSIVE HeaderTables(_)
HeaderTables(n) ==
    IF n = 0 THEN {<<>>}
    ELSE LET shorter == HeaderTables(n - 1)
         IN  shorter \cup {Append(t, r) : t \in {u \in shorter : Len(u) = n - 1}, r \in HeaderRowSet}

InitHeader ==
    /\ pc = "cal_header"
    /\ arg \in {[table |-> t, year |-> 2026, month |-> 4, source |-> "koda", url |-> "KODA_URL",
                 default_time |-> DefaultTime] : t \in HeaderTables(MaxHeaderRows)}
    /\ loc = <<>>
    /\ res = <<>>
    /\ all_events = <<>>
    /\ produced = <<>>

SpecHeader == InitHeader /\ [][NextCal]_vars

WeekdayLabels == {WEEKDAYS[k] : k \in 1..7}

\* the 0-based columns of a row whose trimmed text is a weekday label
WeekdayColumns(row) ==
    {ci \in 0..(Len(row) - 1) : row[ci + 1] # <<>> /\ Strip(row[ci + 1]) \in WeekdayLabels}

\* the 0-based rows with five weekday columns or more
HeaderCandidates(table) ==
    {ri \in 0..(Len(table) - 1) : Cardinality(WeekdayColumns(table[ri + 1])) >= 5}

\* wd_cols is the weekday columns of the row from left to right, each span
\* running to the next start, the last to the width of the row
SpansOf(wd_cols, row) ==
    /\ Len(wd_cols) = Cardinality(WeekdayColumns(row))
    /\ {wd_cols[k].s : k \in 1..Len(wd_cols)} = WeekdayColumns(row)
    /\ \A k \in 1..Len(wd_cols) :
         /\ wd_cols[k].wd = Strip(row[wd_cols[k].s + 1])
         /\ wd_cols[k].s < wd_cols[k].e
         /\ wd_cols[k].e = IF k < Len(wd_cols) THEN wd_cols[k + 1].s ELSE Len(row)

\* C20: the header of _parse_calendar_table is the first row from the top
\* with at least 5 cells whose trimmed text is a weekday label, in any order;
\* the span of the i-th such cell runs from its column to the column of the
\* next, the last to the width of the row, so the spans are disjoint and in
\* order; with no such row the parser returns the empty list
C20_HeaderSpans ==
    pc # "cal_header" =>
        IF HeaderCandidates(arg.table) = {}
        THEN pc = "cal_done" /\ res = << <<>> >>
        ELSE /\ DOMAIN loc # {}
             /\ loc.header_row_idx \in HeaderCandidates(arg.table)
             /\ \A ri \in HeaderCandidates(arg.table) : loc.header_row_idx <= ri
             /\ SpansOf(loc.wd_cols, arg.table[loc.header_row_idx + 1])
             /\ \A j, k \in 1..Len(loc.wd_cols) :
                  j < k => loc.wd_cols[j].e <= loc.wd_cols[k].s

\* a row of four weekdays, then the header of five in mixed order, then a
\* date row: the header is row 1 and its last span runs to column 9
C20_Witness ==
    /\ pc = "cal_done"
    /\ arg.table = <<FourDayRow, MixedHeader, DateRow(1)>>
    /\ loc.header_row_idx = 1
    /\ Len(loc.wd_cols) = 5
    /\ loc.wd_cols[1] = [wd |-> WEEKDAYS[3], s |-> 1, e |-> 3]
    /\ loc.wd_cols[5] = [wd |-> WEEKDAYS[4], s |-> 7, e |-> 9]

\* a table with no row of five weekday cells gives the empty list
C20_NoHeaderWitness ==
    /\ pc = "cal_done"
    /\ arg.table = <<FourDayRow, DateRow(1)>>
    /\ res = << <<>> >>


(***************************************************************************)
(* SpecWalk: the row walk of _parse_calendar_table below a Monday header.  *)
(* The while loop is sequential code: a step that can be taken is taken,   *)
(* which is weak fairness of the next-step action.                         *)
(***************************************************************************)
\* a header of five weekdays, and rows of five cells
WalkHeader    == SubSeq(WEEKDAYS, 1, 5)
\* three bare-digit cells only
ThreeDigitRow == <<<<"1">>, <<"2">>, <<"3">>, <<>>, <<"a">>>>
\* four bare-digit cells, full-width and padded ones among them
FourDigitRow  == <<<<"a", "1">>, <<"F1">>, <<"F2">>, <<" ", "3">>, <<"4">>>>
\* five bare-digit cells
FiveDigitRow  == <<<<"8">>, <<"9">>, <<"1", "0">>, <<"1", "1">>, <<"1", "2">>>>
\* texts below the second and the fourth weekday
WalkTextRow   == <<<<>>, <<"a", "b">>, <<>>, <<"c">>, <<>>>>

WalkRowSet == {ThreeDigitRow, FourDigitRow, FiveDigitRow, WalkTextRow}

\* all sequences of at most n of these rows
RECURSIVE WalkRows(_)
WalkRows(n) ==
    IF n = 0 THEN {<<>>}
    ELSE LET shorter == WalkRows(n - 1)
         IN  shorter \cup {Append(t, r) : t \in {u \in shorter : Len(u) = n - 1}, r \in WalkRowSet}

InitWalk ==
    /\ pc = "cal_header"
    /\ arg \in {[table |-> <<WalkHeader>> \o rows, year |-> 2026, month |-> 4,
                 source |-> "koda", url |-> "KODA_URL", default_time |-> DefaultTime] :
                   rows \in WalkRows(MaxWalkRows)}
    /\ loc = <<>>
    /\ res = <<>>
    /\ all_events = <<>>
    /\ produced = <<>>

SpecWalk == InitWalk /\ [][NextCal]_vars /\ WF_vars(NextCal)

\* the number of cells of a row that are digits only once trimmed
BareDigitCells(row) ==
    Cardinality({ci \in 1..Len(row) :
        /\ Strip(row[ci]) # <<>>
        /\ \A k \in 1..Len(Strip(row[ci])) :
             Strip(row[ci])[k] \in {"0", "1", "2", "3", "4", "5", "6", "7", "8", "9",
                                    "F0", "F1", "F2", "F3", "F4", "F5", "F6", "F7", "F8", "F9"}})

\* the row after row i (0-based), empty when row i is the last
RowAfter(table, i) == IF i + 1 < Len(table) THEN table[i + 2] ELSE <<>>

\* one step of the walk: from the row after the header; a date row takes the
\* next row as content and moves on by two, any other row moves on by one;
\* the walk returns only at the end of the table
WalkStep ==
    /\ (pc = "cal_header" /\ pc' = "cal_walk") => loc'.i = loc'.header_row_idx + 1
    /\ (pc = "cal_walk" /\ pc' = "cal_walk") =>
         /\ loc.i < Len(arg.table)
         /\ IF BareDigitCells(arg.table[loc.i + 1]) >= 4
            THEN /\ loc'.i = loc.i + 2
                 /\ loc'.events = loc.events \o
                        RowEvents(arg, loc.wd_cols, RowAfter(arg.table, loc.i),
                                  DayCells(arg.table[loc.i + 1], 0), 1).events
                 /\ (loc.i + 1 = Len(arg.table) => loc'.events = loc.events)
            ELSE /\ loc'.i = loc.i + 1
                 /\ loc'.events = loc.events
    /\ (pc = "cal_walk" /\ pc' = "cal_done") =>
         loc.i >= Len(arg.table) /\ res' = <<loc.events>>

\* C21: the walk of _parse_calendar_table starts at the row after the header;
\* a row with at least 4 bare-digit cells is a date row, the row after it is
\* its content row (empty when the date row is the last) and the walk goes on
\* by two rows; any other row moves it on by one; so no row index is visited
\* twice, and the walk ends at the end of the table
C21_RowWalk == [][WalkStep]_vars /\ <>(pc = "cal_done")

\* a row of three digits is passed by one, a date row with its content row by
\* two, and a last date row has no content row: the walk is over at index 6
\* of a table of 5 rows, with the events of the first date row only
C21_Witness ==
    /\ pc = "cal_done"
    /\ arg.table = <<WalkHeader, ThreeDigitRow, FourDigitRow, WalkTextRow, FiveDigitRow>>
    /\ loc.date_rows = <<2, 4>>
    /\ loc.i = 6
    /\ Len(res[1]) = 2
    /\ res[1][1].date = <<"2", "0", "2", "6", "-", "0", "4", "-", "0", "1">>
    /\ res[1][2].date = <<"2", "0", "2", "6", "-", "0", "4", "-", "0", "3">>


(***************************************************************************)
(* SpecLabel: the weekday blocks of hanazono and akitsu for headers with   *)
(* weekday cells in any of the columns of the grid, a week having seven    *)
(* days at most                                                            *)
(***************************************************************************)
\* the header with a weekday label in the columns cols (0-based) of w
LabelHeader(cols, w) ==
    [c \in 1..w |-> IF c - 1 \in cols
                    THEN WEEKDAYS[Cardinality({d \in cols : d <= c - 1})]
                    ELSE <<>>]

LabelHeaders ==
    {LabelHeader(cols, MaxLabelWidth) :
        cols \in {cs \in SUBSET (0..(MaxLabelWidth - 1)) : Cardinality(cs) <= Len(WEEKDAYS)}}

InitLabel ==
    /\ pc = "label"
    /\ arg \in {[hall |-> h, header_row |-> r] : h \in {"hanazono", "akitsu"}, r \in LabelHeaders}
    /\ loc = <<>>
    /\ res = <<>>
    /\ all_events = <<>>
    /\ produced = <<>>

NextLabel == LabelBuild \/ LabelAssign

SpecLabel == InitLabel /\ [][NextLabel]_vars

\* the header columns at or before column c + 1: the weekdays whose data
\* begin at or before column c
LabelsUpTo(row, c) == {h \in WeekdayColumns(row) : h - 1 <= c}

\* the first header column after h, or the width of the grid plus one
NextLabelAfter(row, h) ==
    IF \E g \in WeekdayColumns(row) : g > h
    THEN CHOOSE g \in WeekdayColumns(row) : g > h /\ \A f \in WeekdayColumns(row) : f > h => g <= f
    ELSE Len(row) + 1

\* C22: with header weekday cells at columns h_1 < h_2 < ..., hanazono and
\* akitsu give the i-th weekday the span from h_i - 1 to h_(i+1) - 1, the
\* last up to the width of the grid; a column is assigned to the weekday
\* whose span contains it and to none when no span contains it
C22_LabelMinusOne ==
    /\ pc \in {"label_built", "label_done"} =>
         /\ Len(loc.wd_cols) = Cardinality(WeekdayColumns(arg.header_row))
         /\ \A k \in 1..Len(loc.wd_cols) :
              /\ loc.wd_cols[k].s + 1 \in WeekdayColumns(arg.header_row)
              /\ Cardinality(LabelsUpTo(arg.header_row, loc.wd_cols[k].s)) = k
              /\ loc.wd_cols[k].e = NextLabelAfter(arg.header_row, loc.wd_cols[k].s + 1) - 1
    /\ pc = "label_done" =>
         \A c \in 0..(Len(arg.header_row) - 1) :
            IF LabelsUpTo(arg.header_row, c) = {}
            THEN res[c + 1] = NoBlock
            ELSE /\ res[c + 1] = loc.wd_cols[Cardinality(LabelsUpTo(arg.header_row, c))]
                 /\ res[c + 1].s <= c
                 /\ c < res[c + 1].e

\* labels in columns 1, 3 and 4 of hanazono: the spans are 0-2, 2-3 and 3-7,
\* so column 2 belongs to the second weekday
C22_Witness ==
    /\ pc = "label_done"
    /\ arg.hall = "hanazono"
    /\ arg.header_row = LabelHeader({1, 3, 4}, 7)
    /\ res[1].s = 0 /\ res[1].e = 2
    /\ res[3].s = 2 /\ res[3].e = 3
    /\ res[7].s = 3 /\ res[7].e = 7

\* labels from column 2 on in akitsu: column 0 belongs to no weekday
C22_NoneWitness ==
    /\ pc = "label_done"
    /\ arg.hall = "akitsu"
    /\ arg.header_row = LabelHeader({2, 5}, 7)
    /\ res[1] = NoBlock
    /\ res[2].s = 1 /\ res[2].e = 4


\* the line of JonanLineSet that starts with a time range, and its time
JonanTimeLine  == <<"1", "0", ":", "3", "0", "FTILDE", "1", "1", ":", "0", "0">>
JonanTimeOfLine == <<"1", "0", ":", "3", "0", "WAVE", "1", "1", ":", "0", "0">>

\* the positions of the lines of the cell at which a run of title lines
\* begins: a title line that is the first line or follows a time line
TitleRunStarts(ls) ==
    {i \in 1..Len(ls) : ls[i] # JonanTimeLine /\ (i = 1 \/ ls[i - 1] = JonanTimeLine)}

\* the last line of the run of title lines that begins at i
TitleRunEnd(ls, i) ==
    CHOOSE e \in i..Len(ls) :
        /\ \A j \in i..e : ls[j] # JonanTimeLine
        /\ (e = Len(ls) \/ ls[e + 1] = JonanTimeLine)

\* the title lines i..e joined by one space
RECURSIVE SpacedLines(_, _, _)
SpacedLines(ls, i, e) ==
    IF i = e THEN ls[i] ELSE ls[i] \o <<" ">> \o SpacedLines(ls, i + 1, e)

\* C23: in a day cell of scrape_jonan every run of title lines is one
\* sub-event, in order; a run closed by a line that starts with a time range
\* has that time, a run at the end of the cell has "11:00〜"; every sub-event
\* has the day of the cell; so every title line is in exactly one sub-event
C23_CellSplit ==
    pc \in {"jonan_filter", "jonan_done"} =>
        /\ Len(loc.candidates) = Cardinality(TitleRunStarts(arg.lines)) + 1
        /\ \A i \in TitleRunStarts(arg.lines) :
             LET j == Cardinality({h \in TitleRunStarts(arg.lines) : h <= i})
                 e == TitleRunEnd(arg.lines, i)
             IN  /\ loc.candidates[j].day = arg.day
                 /\ loc.candidates[j].title = SpacedLines(arg.lines, i, e)
                 /\ loc.candidates[j].time = IF e < Len(arg.lines) THEN JonanTimeOfLine
                                             ELSE <<"1", "1", ":", "0", "0", "WAVE">>

\* a title, a time line and one more title in the cell of day 7: two
\* sub-events, the second at the default time
C23_Witness ==
    /\ pc = "jonan_filter"
    /\ arg.lines = <<<<"E", "n", "g", "l", "i", "s", "h">>, JonanTimeLine, <<"u3048", "u307B", "u3093">>>>
    /\ Len(loc.candidates) = 3
    /\ loc.candidates[1] = [day |-> 7, title |-> <<"E", "n", "g", "l", "i", "s", "h">>, time |-> JonanTimeOfLine]
    /\ loc.candidates[2] = [day |-> 7, title |-> <<"u3048", "u307B", "u3093">>, time |-> <<"1", "1", ":", "0", "0", "WAVE">>]


(***************************************************************************)
(* SpecPages: scrape_kosodate_with_page page by page, on a few list pages  *)
(* that overlap and on long lists of pages with one new link each          *)
(***************************************************************************)
PageUrlNames ==
    <<"page1.html", "page2.html", "page3.html", "page4.html", "page5.html", "page6.html",
      "page7.html", "page8.html", "page9.html", "page10.html", "page11.html", "page12.html",
      "page13.html", "page14.html">>

LinkOf(k) == Anchor(PageUrlNames[k], TitleA1, <<"2", "0", "2", "6", "NEN", "4", "GATSU", "1", "0", "NICHI">>)

\* what one list page can hold: nothing, links that repeat on the page,
\* links without title or date, links of other pages next to new ones
ListPageSet ==
    { <<>>,
      <<LinkOf(1)>>,
      <<LinkOf(1), LinkOf(2), LinkOf(1)>>,
      <<LinkOf(2), LinkOf(3)>>,
      <<LinkOf(3)>>,
      <<Anchor("page4.html", <<>>, <<"2", "0", "2", "6", "NEN", "4", "GATSU", "1", "0", "NICHI">>), Anchor("page5.html", TitleA1, <<>>)>> }

RECURSIVE ListPages(_)
ListPages(n) ==
    IF n = 0 THEN {<<>>}
    ELSE LET shorter == ListPages(n - 1)
         IN  shorter \cup {Append(ps, p) : ps \in {u \in shorter : Len(u) = n - 1}, p \in ListPageSet}

\* n pages, page k with the one link k
LongList(n) == [k \in 1..n |-> <<LinkOf(k)>>]

InitPages ==
    /\ pc = "pages"
    /\ arg \in {[pages |-> ps] : ps \in ListPages(MaxListPages) \cup {LongList(n) : n \in 0..MaxLongList}}
    /\ loc = [page_num |-> 1, all_events |-> <<>>, fetched |-> 0]
    /\ res = <<>>
    /\ all_events = <<>>
    /\ produced = <<>>

NextPages == PageFetch \/ PageRangeEnd

SpecPages == InitPages /\ [][NextPages]_vars

\* the URLs of the links of list page p that have a title and a date
PageUrls(pages, p) ==
    IF p > Len(pages) THEN {}
    ELSE {pages[p][k].url : k \in {j \in 1..Len(pages[p]) :
                                      pages[p][j].title # <<>> /\ pages[p][j].kidate # <<>>}}

UrlsBefore(pages, p) == UNION {PageUrls(pages, q) : q \in 1..(p - 1)}

\* the pages among the first ten that have no event or no URL that an
\* earlier page has not
StopPages(pages) == {p \in 1..10 : PageUrls(pages, p) \subseteq UrlsBefore(pages, p)}

\* C24: scrape_kosodate_with_page fetches at most 10 list pages and stops at
\* the first page with no event or no URL not yet collected; the list
\* collected so far never holds a URL twice; the new events of a page are
\* kept although the page repeats URLs of earlier pages
C24_Pagination ==
    /\ loc.fetched <= 10
    /\ \A j, k \in 1..Len(loc.all_events) :
         loc.all_events[j].url = loc.all_events[k].url => j = k
    /\ pc = "pages" =>
         {loc.all_events[k].url : k \in 1..Len(loc.all_events)} = UrlsBefore(arg.pages, loc.page_num)
    /\ pc = "pages_done" =>
         /\ res[1] = loc.all_events
         /\ IF StopPages(arg.pages) = {}
            THEN /\ loc.fetched = 10
                 /\ {res[1][k].url : k \in 1..Len(res[1])} = UrlsBefore(arg.pages, 11)
            ELSE \E p \in StopPages(arg.pages) :
                 /\ \A q \in StopPages(arg.pages) : p <= q
                 /\ loc.fetched = p
                 /\ {res[1][k].url : k \in 1..Len(res[1])} = UrlsBefore(arg.pages, p)

\* the second page repeats a link of the first and brings a new one, the
\* third brings nothing new: three pages fetched, three URLs collected
C24_Witness ==
    /\ pc = "pages_done"
    /\ arg.pages = << <<LinkOf(1), LinkOf(2), LinkOf(1)>>, <<LinkOf(2), LinkOf(3)>>, <<LinkOf(3)>> >>
    /\ loc.fetched = 3
    /\ Len(res[1]) = 3
    /\ res[1][3].url = "page3.html"

\* twelve pages with a new link each: ten are fetched
C24_LimitWitness ==
    /\ pc = "pages_done"
    /\ Len(arg.pages) = 12
    /\ loc.fetched = 10
    /\ Len(res[1]) = 10

\* the loop taken page by page returns what scrape_kosodate_with_page returns
PagesAgree == pc = "pages_done" => res[1] = scrape_kosodate_with_page(arg.pages)


(***************************************************************************)
(* SpecHtml: update_html called for each run on a page file that does or   *)
(* does not exist and holds the markers in any number and order            *)
(***************************************************************************)
HtmlPieces == {<<"<", "p", ">">>, start_marker, end_marker, <<"\n">>}

HtmlFiles == Concats(HtmlPieces, MaxHtmlPieces) \cup {NoFile}

EventsData ==
    { [updated_at |-> <<"2", "0", "2", "5", "-", "0", "6", "-", "0", "1", "T", "0", "9", ":", "0", "0", ":", "0", "0">>, count |-> 0, events |-> <<>>],
      [updated_at |-> <<"2", "0", "2", "5", "-", "0", "6", "-", "0", "2", "T", "0", "9", ":", "0", "0", ":", "0", "0">>, count |-> 1,
       events |-> << [title |-> <<"a", "DQUOTE", "b", "BSLASH", "c">> \o <<"\n">>, needs_reservation |-> TRUE] >>],
      [updated_at |-> <<"2", "0", "2", "5", "-", "0", "6", "-", "0", "3", "T", "0", "9", ":", "0", "0", ":", "0", "0">>, count |-> 2,
       events |-> << [title |-> <<"u30E8", "u30AC">>, needs_reservation |-> FALSE],
                     [title |-> <<"<", "p", ">">>, needs_reservation |-> TRUE] >>] }

RECURSIVE RunsUpTo(_)
RunsUpTo(n) ==
    IF n = 0 THEN {<<>>}
    ELSE RunsUpTo(n - 1) \cup {Append(r, d) : r \in RunsUpTo(n - 1), d \in EventsData}

InitHtml ==
    /\ pc = "update"
    /\ arg \in {[html |-> h, runs |-> r] : h \in HtmlFiles, r \in RunsUpTo(MaxUpdates)}
    /\ loc = [calls |-> 0, prev |-> NoFile, file |-> arg.html]
    /\ res = <<>>
    /\ all_events = <<>>
    /\ produced = <<>>

NextHtml == UpdateHtml \/ UpdateEnd

SpecHtml == InitHtml /\ [][NextHtml]_vars

\* the text of html before the first marker m, and after it
BeforeMarker(html, m) ==
    CHOOSE p \in {SubSeq(html, 1, k) : k \in 0..Len(html)} :
        /\ StartsWithAt(html, Len(p) + 1, m)
        /\ ~Contains(SubSeq(html, 1, Len(p) + Len(m) - 1), m)

AfterMarker(html, m) == SubSeq(html, Len(BeforeMarker(html, m)) + Len(m) + 1, Len(html))

\* the block written for the data of the last call
NewBlock(events_data) ==
    start_marker \o <<"\n">> \o <<"c", "o", "n", "s", "t", " ", "I", "N", "L", "I", "N", "E", "_", "E", "V", "E", "N", "T", "S", " ", "=", " ">>
      \o json_dumps(events_data) \o <<";", "\n">> \o end_marker

\* C25: after a call of update_html the page is the text before the start
\* marker, the new block (start marker, one JSON assignment, end marker) and
\* the text after the end marker; with no page file or with a marker
\* missing the file is as it was before the call
C25_HtmlFrame ==
    loc.calls > 0 =>
        IF loc.prev = NoFile THEN loc.file = NoFile
        ELSE IF ~Contains(loc.prev, start_marker) \/ ~Contains(loc.prev, end_marker)
             THEN loc.file = loc.prev
        ELSE loc.file = BeforeMarker(loc.prev, start_marker)
                          \o NewBlock(arg.runs[loc.calls])
                          \o AfterMarker(loc.prev, end_marker)

\* a page with text around an empty block, updated with one event whose
\* title holds a quote, a backslash and a line feed
C25_Witness ==
    /\ loc.calls = 1
    /\ loc.prev = <<"<", "p", ">">> \o start_marker \o end_marker \o <<"\n">>
    /\ loc.file = <<"<", "p", ">", "/", "*", " ", "E", "V", "E", "N", "T", "S", "_", "D", "A", "T", "A", "_", "S", "T", "A", "R", "T", " ", "*", "/">> \o <<"\n">>
                    \o <<"c", "o", "n", "s", "t", " ", "I", "N", "L", "I", "N", "E", "_", "E", "V", "E", "N", "T", "S", " ", "=", " ", "{", "DQUOTE", "u", "p", "d", "a", "t", "e", "d", "_", "a", "t", "DQUOTE", ":", " ", "DQUOTE", "2", "0", "2", "5", "-", "0", "6", "-", "0", "2", "T", "0", "9", ":", "0", "0", ":", "0", "0", "DQUOTE", ",", " ", "DQUOTE", "c", "o", "u", "n", "t", "DQUOTE", ":", " ", "1", ",", " ", "DQUOTE", "e", "v", "e", "n", "t", "s", "DQUOTE", ":", " ", "[", "{", "DQUOTE", "t", "i", "t", "l", "e", "DQUOTE", ":", " ", "DQUOTE", "a", "BSLASH", "DQUOTE", "b", "BSLASH", "BSLASH", "c", "BSLASH", "n", "DQUOTE", ",", " ", "DQUOTE", "n", "e", "e", "d", "s", "_", "r", "e", "s", "e", "r", "v", "a", "t", "i", "o", "n", "DQUOTE", ":", " ", "t", "r", "u", "e", "}", "]", "}", ";">>
                    \o <<"\n">> \o <<"/", "*", " ", "E", "V", "E", "N", "T", "S", "_", "D", "A", "T", "A", "_", "E", "N", "D", " ", "*", "/">> \o <<"\n">>

\* a page with the start marker only is left as it is
C25_MissingWitness ==
    /\ loc.calls = 1
    /\ loc.prev = <<"<", "p", ">">> \o start_marker
    /\ loc.file = loc.prev


(***************************************************************************)
(* The hall adapters in a run of scrape()                                  *)
(***************************************************************************)
\* the halls whose adapter was called (it returned or raised)
HallsInvoked == {produced[j].src : j \in {i \in 1..Len(produced) : produced[i].hall}}

\* C26: when a run of scrape() has finished, the adapter of every entry of
\* HALL_CONFIGS has been called on the PDF bytes of its hall
C26_AdaptersInvoked ==
    Finished("scrape") => \A k \in 1..Len(HALL_CONFIGS) : HALL_CONFIGS[k] \in HallsInvoked


(***************************************************************************)
(* SpecContent: the content read for a day cell of a grid whose cells      *)
(* hold a text of their own each, under the weekday header of hanazono or  *)
(* akitsu                                                                  *)
(***************************************************************************)
\* the text of the cell in row r (from 1) and column c (from 0)
CellNames == << <<"A", "B", "C", "D", "E", "F", "G">>,
                <<"a", "b", "c", "d", "e", "f", "g">>,
                <<"t", "u", "v", "w", "x", "y", "z">> >>

OwnText(r, c) == <<CellNames[r][c + 1]>>

\* a row with a text in the columns filled
OwnTextRow(r, filled, w) == [c \in 1..w |-> IF c - 1 \in filled THEN OwnText(r, c - 1) ELSE <<>>]

\* all columns filled, or all but one
FilledSets(w) == {0..(w - 1)} \cup {(0..(w - 1)) \ {c} : c \in 0..(w - 1)}

RECURSIVE ContentGrids(_, _)
ContentGrids(n, w) ==
    IF n = 0 THEN {<<>>}
    ELSE {Append(g, OwnTextRow(n, f, w)) : g \in ContentGrids(n - 1, w), f \in FilledSets(w)}

InitContent ==
    /\ pc = "label"
    /\ arg \in {[hall |-> h, header_row |-> LabelHeader(cols, MaxContentWidth),
                 content_rows |-> g, day_ci |-> ci] :
                   h \in {"hanazono", "akitsu"},
                   cols \in SUBSET (0..(MaxContentWidth - 1)),
                   g \in UNION {ContentGrids(n, MaxContentWidth) : n \in 1..MaxContentRows},
                   ci \in 0..(MaxContentWidth - 1)}
    /\ loc = <<>>
    /\ res = <<>>
    /\ all_events = <<>>
    /\ produced = <<>>

NextContent == LabelBuild \/ ContentCollect

SpecContent == InitContent /\ [][NextContent]_vars

\* the lines of the content read
ContentRead == IF arg.hall = "hanazono" THEN Range(SplitLines(res[1])) ELSE Range(res[1])

\* C27: the content read for a day cell holds the text of a cell only when
\* the column of that cell lies inside the span of the day's weekday and
\* inside the grid
C27_ContentInsideSpan ==
    (pc = "content_done" /\ res # <<>>) =>
        \A r \in 1..Len(arg.content_rows) : \A c \in 0..(Len(arg.content_rows[r]) - 1) :
            OwnText(r, c) \in ContentRead => (loc.blk.s <= c /\ c < loc.blk.e)


(***************************************************************************)
(* Adjacent date rows in the walk of _parse_calendar_table                 *)
(***************************************************************************)
\* the 0-based indexes i below the header such that rows i and i + 1 are
\* both date rows
AdjacentDateRows ==
    {i \in (loc.header_row_idx + 1)..(Len(arg.table) - 2) :
        BareDigitCells(arg.table[i + 1]) >= 4 /\ BareDigitCells(arg.table[i + 2]) >= 4}

\* the texts of the day cells of a row, as a content cell is read
DayTexts(row) == {_normalize(row[d[1] + 1]) : d \in Range(DayCells(row, 0))}

\* C28: when the walk is over, the second of two adjacent date rows has been
\* taken as a date row itself, and no event has a title that is only the
\* day digits of a cell of that second row
C28_DateRowNotContent ==
    (pc = "cal_done" /\ DOMAIN loc # {}) =>
        \A i \in AdjacentDateRows :
            /\ (i + 1) \in Range(loc.date_rows)
            /\ \A k \in 1..Len(res[1]) : res[1][k].title \notin DayTexts(arg.table[i + 2])


(***************************************************************************)
(* SpecNextMonth: scrape_hanazono and scrape_ooe on an issue of December   *)
(* (or of April) that announces events of the month after                  *)
(***************************************************************************)
IssueBackCells ==
    { <<"u300C", "u304A", "u306F", "u306A", "u3057", "u4F1A", "u300D", "1", "2", "GATSU", "1", "NICHI", " ", "1", "0", ":", "3", "0", "FTILDE", "1", "1", ":", "1", "5">>,
      <<"u300C", "u3082", "u3061", "u3064", "u304D", "u300D", "1", "GATSU", "1", "0", "NICHI", "LBR", "u5BFE", "u8C61", "u3011", "u4E73", "u5E7C", "u5150", "u3068", "u4FDD", "u8B77", "u8005">>,
      <<"u300C", "u30EA", "u30BA", "u30E0", "u300D", "5", "GATSU", "1", "NICHI">> }

IssueBackRows ==
    {<<>>} \cup {<<c>> : c \in IssueBackCells}
           \cup {<<c, d>> : c \in IssueBackCells, d \in IssueBackCells}

IssueHanazonoInputs ==
    {[hall |-> "hanazono", cal_table |-> cal, back_table |-> <<row>>, text |-> t,
      creation_date |-> <<>>, now |-> [year |-> 2026, month |-> 11]] :
        cal \in HzCalendars, row \in IssueBackRows,
        t \in {<<"REI", "WA", "8", "NEN", "1", "2", "GATSU">>, <<"REI", "WA", "8", "NEN", "4", "GATSU">>}}

OoeLineSet ==
    { <<"NICHI", "JI", " ", "1", "2", "GATSU", "2", "0", "NICHI", "(", "NICHI", ")">>,
      <<"NICHI", " ", "JI", " ", "1", "GATSU", "1", "0", "NICHI", "(", "NICHI", ")", " ", "GO", "ZEN", "1", "0", "JI", "u534A">>,
      <<" ", "NICHI", "JI", " ", "1", "GATSU", "1", "0", "NICHI">>,
      <<"NICHI", "JI", " ", "5", "GATSU", "1", "NICHI">>,
      <<"NICHI", "JI", " ", "2", "GATSU", "3", "NICHI">>,
      <<"u5BFE", " ", "u8C61", " ", "u4E73", "u5E7C", "u5150", "u3068", "u4FDD", "u8B77", "u8005">>,
      <<"u5BFE", "u8C61", " ", "u3069", "u306A", "u305F", "de", "u3082">> }

RECURSIVE OoeLineSeqs(_)
OoeLineSeqs(n) ==
    IF n = 0 THEN {<<>>}
    ELSE LET shorter == OoeLineSeqs(n - 1)
         IN  shorter \cup {Append(t, l) : t \in {u \in shorter : Len(u) = n - 1}, l \in OoeLineSet}

OoeInputs ==
    {[hall |-> "ooe", text |-> t, left |-> l, right |-> r,
      creation_date |-> <<>>, now |-> [year |-> 2026, month |-> 11]] :
        t \in {<<"REI", "WA", "8", "NEN", "(", "2", "0", "2", "6", "NEN", ")", "1", "2", "GATSU", "u53F7">>, <<"2", "0", "2", "6", "NEN", "4", "GATSU">>, <<"u304A", "u3057", "ra", "u305B">>},
        l \in OoeLineSeqs(MaxOoeLines),
        r \in {<<>>, <<<<"NICHI", "JI", " ", "1", "GATSU", "1", "0", "NICHI">>, <<"u5BFE", "u8C61", " ", "0", "u6B73", "u5150">>>>}}

InitNextMonth ==
    /\ \/ pc = "hanazono" /\ arg \in IssueHanazonoInputs
       \/ pc = "ooe" /\ arg \in OoeInputs
    /\ loc = <<>>
    /\ res = <<>>
    /\ all_events = <<>>
    /\ produced = <<>>

NextNextMonth == NextHanazono \/ OoePage \/ OoeColumns

SpecNextMonth == InitNextMonth /\ [][NextNextMonth]_vars

\* the events of the result that fall in January
JanuaryEvents == {k \in 1..Len(res[1]) : SubSeq(res[1][k].date, 6, 7) = <<"0", "1">>}

\* C29: in the result of an adapter for an issue of December, an event of
\* January is dated in the year after the year of the issue
C29_JanuaryNextYear ==
    (pc \in {"hanazono_done", "ooe_done"} /\ loc.month = 12) =>
        \A k \in JanuaryEvents : SubSeq(res[1][k].date, 1, 4) = IntStr(loc.year + 1)


(***************************************************************************)
(* The keyword 乳幼児 of the age table                                     *)
(***************************************************************************)
\* the row of AGE_MAP whose keyword is 乳幼児
NyuuyoujiRow == CHOOSE k \in 1..Len(AGE_MAP) : AGE_MAP[k][1] = Nyuuyouji

\* the text holds 乳幼児 and no age keyword that 乳幼児 itself does not hold
OnlyNyuuyouji(t) == RowsFound(AGE_MAP, t) = RowsFound(AGE_MAP, Nyuuyouji)

\* C30: a text whose only age keyword is 乳幼児 is given the tag of 乳幼児
\* (0歳〜未就学) by guess_age, not the tag of the keyword 幼児 it contains
C30_NyuuyoujiOwnTag ==
    (pc \in {"guess_again", "guess_done"} /\ OnlyNyuuyouji(arg.text)) =>
        res[2] = AGE_MAP[NyuuyoujiRow][2]

====
